---- MODULE Spec2Model ----
(***************************************************************************)
(* A model of the authentication and session core of private-llm-cloud,    *)
(* src/api/auth-middleware.py: class AuthenticationManager (the user and   *)
(* session stores, password / API-key / JWT authentication, sessions, the  *)
(* failed-attempt and rate-limit windows) and the request wrapper of       *)
(* class AuthenticationRequired.                                           *)
(*                                                                         *)
(* Time is the wall clock in seconds (time.time() and datetime.utcnow()    *)
(* are the same clock here); created_at of a user or session and the       *)
(* user_agent of a session, written once and only reported, are left out.  *)
(* Random material (secrets.token_urlsafe) is   *)
(* modelled as a fresh value drawn from a counter: 256 random bits do not  *)
(* repeat.  The two store files users.enc and sessions.enc are variables;  *)
(* every operation that calls _save_users / _save_sessions carries the     *)
(* effect of that call on the file.                                        *)
(***************************************************************************)
EXTENDS Integers, Sequences, FiniteSets, TLC

----------------------------------------------------------------------------
(* Program constants *)

\* _record_failed_attempt / check_rate_limit keep "now - t < 3600"
WINDOW == 3600
\* create_session: expires_at = utcnow() + timedelta(hours=24)
SESSION_TTL == 86400
\* generate_jwt_token: self.jwt_expiry = timedelta(hours=24)
JWT_EXPIRY == 86400
\* is_blocked: len(self.failed_attempts[identifier]) >= 5
BLOCK_THRESHOLD == 5

----------------------------------------------------------------------------
(* Bounds of the model *)

\* the clock advances in steps of this many seconds in the login and
\* rate-limit specifications (half a window) ...
ShortStep == 1800
\* ... and stops at this time
ShortHorizon == 3600
\* the clock step and horizon of the session and dispatch specifications
LongStep == 43200
LongHorizon == 129600
\* the clock step and horizon of the dispatch specification
DispatchStep == 86400
DispatchHorizon == 86400
\* no more failures than this are kept over all identifiers
MaxFailures == 6
\* rate_limit of a created user (100 in create_user) and of the default
\* admin (1000 in _create_default_admin), scaled down
UserRateLimit == 1
AdminRateLimit == 2
\* how many session ids, API keys and tokens are ever generated
MaxSessions == 2
MaxKeys == 3
MaxTokens == 1
\* how many sessions the dispatch specification creates
DispatchSessions == 1
\* how many workers call check_rate_limit at the same time
MaxWorkers == 2
PrivacyStep == 900
PrivacyHorizon == 4500

Usernames == {"admin", "alice"}
Passwords == {"pw1", "pw2"}
AdminPassword == "pw1"
IpAddresses == {"10.0.0.1", "10.0.0.2"}
Endpoints == {"/api/chat"}
PermissionLists == {<<"chat">>, <<"models">>}

\* the value of Optional[...] = None
None == "None"
\* datetime fields that are None (last_login)
NoTime == -1

----------------------------------------------------------------------------
(* Library functions *)

\* passlib CryptContext.hash: a salted one-way hash; only verify relates a
\* password to it
pwd_hash(password) == [scheme |-> "bcrypt", of |-> password]

\* passlib CryptContext.verify(password, hash)
pwd_verify(password, hash) == hash.scheme = "bcrypt" /\ hash.of = password

\* f"{user.username}:{endpoint}"
rate_key(username, endpoint) == username \o ":" \o endpoint

\* [t for t in ts if now - t < 3600]
RECURSIVE clean_old(_, _)
clean_old(ts, t_now) ==
    IF ts = <<>> THEN <<>>
    ELSE IF t_now - Head(ts) < WINDOW
         THEN <<Head(ts)>> \o clean_old(Tail(ts), t_now)
         ELSE clean_old(Tail(ts), t_now)

\* how many times the lists of a dict hold, over all its keys
RECURSIVE total_len(_)
total_len(fa) ==
    IF DOMAIN fa = {} THEN 0
    ELSE LET k == CHOOSE x \in DOMAIN fa : TRUE
         IN  Len(fa[k]) + total_len([x \in DOMAIN fa \ {k} |-> fa[x]])

\* dict helpers: {}, d[k] = v and del d[k]
EmptyDict == [x \in {} |-> 0]
dict_set(d, k, v) == [x \in DOMAIN d \cup {k} |-> IF x = k THEN v ELSE d[x]]
dict_del(d, k) == [x \in DOMAIN d \ {k} |-> d[x]]

----------------------------------------------------------------------------
(* The store files *)

\* what a store file holds: nothing (no such file), zero bytes (just opened
\* with "wb"), a prefix of a ciphertext, bytes that do not decrypt, or the
\* Fernet ciphertext of a JSON text
Absent == [kind |-> "absent", data |-> EmptyDict]
Truncated == [kind |-> "empty", data |-> EmptyDict]
Partial(data) == [kind |-> "partial", data |-> data]
Corrupt == [kind |-> "corrupt", data |-> EmptyDict]
Encrypted(data) == [kind |-> "encrypted", data |-> data]

\* datetime.isoformat(): a string, no longer a datetime
isoformat(t) == [iso |-> t]

\* datetime.fromisoformat(): the datetime of such a string
fromisoformat(text) == text.iso

\* _save_users, lines 160-171: the dict that is handed to json.dumps
users_data(us) ==
    [u \in DOMAIN us |->
        [username |-> u,
         password_hash |-> us[u].password_hash,
         api_keys |-> us[u].api_keys,
         permissions |-> us[u].permissions,
         last_login |-> IF us[u].last_login = NoTime
                        THEN [null |-> TRUE, text |-> isoformat(0)]
                        ELSE [null |-> FALSE,
                              text |-> isoformat(us[u].last_login)],
         is_active |-> us[u].is_active,
         rate_limit |-> us[u].rate_limit]]

\* _save_sessions, lines 217-227: the dict that is handed to json.dumps
sessions_data(ss) ==
    [s \in DOMAIN ss |->
        [session_id |-> s,
         user_id |-> ss[s].user_id,
         expires_at |-> isoformat(ss[s].expires_at),
         ip_address |-> ss[s].ip_address,
         is_active |-> ss[s].is_active]]

\* a module that imports json: json.dumps returns the text
json_dumps_imported(data) == [raised |-> None, value |-> data]

\* json.dumps(data), lines 173 and 229: auth-middleware.py does not import
\* json, so evaluating the name raises NameError
json_dumps(data) == [raised |-> "NameError", value |-> EmptyDict]

\* json.loads(text), lines 145 and 194: NameError, for the same reason
json_loads(text) == [raised |-> "NameError", value |-> EmptyDict]

\* cipher.decrypt(encrypted_data): InvalidToken unless the bytes are a whole
\* Fernet ciphertext
decrypt(file) ==
    IF file.kind = "encrypted" THEN [raised |-> None, value |-> file.data]
    ELSE [raised |-> "InvalidToken", value |-> EmptyDict]

\* where the process may be killed inside a save: not at all, before the
\* file is opened, between open(.., "wb") and f.write, within f.write, or
\* after f.write
CrashPoints == {"none", "before_open", "after_open", "in_write", "after_write"}

\* whether a save of data gets as far as the crash point: the statements
\* after json.dumps run only when it returns
crash_reached(data, crash) ==
    crash = "before_open" \/ json_dumps(data).raised = None

\* the body of _save_users / _save_sessions, lines 159-182 and 216-238: the
\* file after a save of data that runs up to the crash point; an exception
\* is caught and printed, the file is then as it was
save_file(file, data, crash) ==
    LET data_str == json_dumps(data)
    IN  IF data_str.raised # None \/ crash = "before_open" THEN file
        ELSE IF crash = "after_open" THEN Truncated
        ELSE IF crash = "in_write" THEN Partial(data_str.value)
        ELSE Encrypted(data_str.value)

\* _save_users() and _save_sessions() run to their end
save_users(file, us) == save_file(file, users_data(us), "none")
save_sessions(file, ss) == save_file(file, sessions_data(ss), "none")

\* whether a save wrote the file to its end: "done", or "failed" when an
\* exception was caught
flushed(data) == IF json_dumps(data).raised = None THEN "done" ELSE "failed"

----------------------------------------------------------------------------
VARIABLES
    now,              \* the wall clock
    strict_ip,        \* os.getenv("STRICT_SESSION_IP") == "true"
    users,            \* self.users: username -> User
    sessions,         \* self.sessions: session_id -> Session
    failed_attempts,  \* self.failed_attempts: identifier -> list of times
    rate_limits,      \* self.rate_limits: "user:endpoint" -> list of times
    next_session,     \* the next fresh session id
    next_key,         \* the next fresh API key
    tokens,           \* the JWTs issued so far, held by clients
    users_file,       \* the contents of /app/data/auth/users.enc
    sessions_file,    \* the contents of /app/data/auth/sessions.enc
    frames,           \* per worker: its check_rate_limit call in progress
    ret,              \* the last call: its name, arguments and outcome
    cascaded,         \* history: ids of the sessions a delete_user deactivated
    lapsed,           \* history: ids of the sessions validated past expiry
    admitted,         \* history: rate key -> times of the checks admitted
    orphaned,         \* history: the tokens whose user was deleted since
    download,         \* download_utils: output_dir/filename, the temporary
                      \* directory, and the last atomic_download call
    privacy           \* privacy_state_manager: the manager, its state file,
                      \* and the last call
                      \* by the calls of check_rate_limit on its own

vars == <<now, strict_ip, users, sessions, failed_attempts, rate_limits,
          next_session, next_key, tokens, users_file, sessions_file, frames,
          ret, cascaded, lapsed, admitted, orphaned, download, privacy>>

disk == <<users_file, sessions_file>>

history == <<cascaded, lapsed, admitted, orphaned>>

\* the state of the scripts, which no operation of the API touches
scripts == <<download, privacy>>

\* the API's state, which no script touches
api == <<now, strict_ip, users, sessions, failed_attempts, rate_limits,
         next_session, next_key, tokens, users_file, sessions_file, frames,
         ret, cascaded, lapsed, admitted, orphaned>>

\* download_utils before any call: no file at output_dir/filename
NoDownload ==
    [op |-> "none", final_file |-> "absent", temp_dir |-> "none",
     served |-> "none",
     expected_hash |-> [digest |-> "none", upper |-> FALSE],
     same_filesystem |-> TRUE,
     fault |-> "none", result |-> FALSE]

\* PrivacyStateManager.__init__ without a state file: STARTUP, begun now
NoStateFile == [state |-> "none", age |-> 0]
FirstManager ==
    [op |-> "__init__", current_state |-> "startup", state_duration |-> 0,
     state_file |-> NoStateFile, downloads_active |-> FALSE,
     system_activity |-> FALSE, quiet_since |-> "never"]

\* the workers that call into the one AuthenticationManager
Workers == 1..MaxWorkers

\* a worker that is inside no method of the manager; inside
\* cleanup_expired_sessions its frame holds the number of entries the dict
\* had when its iterator was made (used) and the list expired_sessions
Idle == [pc |-> "idle", username |-> None, endpoint |-> None, t |-> 0,
         limit |-> 0, used |-> 0, expired |-> {}]

\* no bearer token
NoToken ==
    [kind |-> "none", permissions |-> <<>>, sub |-> None, exp |-> 0,
     signed |-> FALSE, key |-> 0]

\* the record of a call; every call fills in what applies to it
NoCall ==
    [op |-> "init", username |-> None, password |-> None, session_id |-> 0,
     ip_address |-> None, scheme |-> "none", bearer |-> NoToken, required |-> {}, endpoint |-> None,
     result |-> None, permissions |-> <<>>, status |-> 0, verified |-> FALSE,
     session_consulted |-> FALSE, via |-> None, flush |-> "none",
     raised |-> None, key |-> 0, crash |-> "none", left |-> Absent,
     data |-> EmptyDict]

\* class User
User(password, keys, perms, limit) ==
    [password_hash |-> pwd_hash(password), api_keys |-> keys,
     permissions |-> perms, last_login |-> NoTime, is_active |-> TRUE,
     rate_limit |-> limit]

\* _create_default_admin
default_admin ==
    User(AdminPassword, <<1>>, <<"admin", "chat", "models">>, AdminRateLimit)

\* AuthenticationManager.__init__ on a data directory without store files:
\* no store is loaded, the default admin is created
Setup ==
    /\ now = 0
    /\ users = [u \in {"admin"} |-> default_admin]
    /\ sessions = EmptyDict
    /\ failed_attempts = EmptyDict
    /\ rate_limits = EmptyDict
    /\ next_session = 1
    /\ next_key = 2
    /\ tokens = {}
    /\ users_file = Absent
    /\ sessions_file = Absent
    /\ frames = [w \in Workers |-> Idle]
    /\ ret = NoCall
    /\ cascaded = {}
    /\ lapsed = {}
    /\ admitted = EmptyDict
    /\ orphaned = {}
    /\ download = NoDownload
    /\ privacy = FirstManager

\* STRICT_SESSION_IP is unset (its default)
Init == Setup /\ strict_ip = FALSE

\* STRICT_SESSION_IP is set to either value
InitAnyIp == Setup /\ strict_ip \in BOOLEAN

\* the clock advances
Tick(step, horizon) ==
    /\ now + step <= horizon
    /\ now' = now + step
    /\ ret' = [NoCall EXCEPT !.op = "tick"]
    /\ UNCHANGED <<scripts, frames, strict_ip, users, sessions, failed_attempts, rate_limits,
                   next_session, next_key, tokens, disk, history>>

----------------------------------------------------------------------------
(* Users *)

\* create_user(username, password, permissions): a new active user with one
\* fresh API key and rate_limit 100; ValueError when the name is taken
\* a key generator that returns the same string at every call
generate_api_key_repeats(n) == 1

\* _generate_api_key: "pllm_" + secrets.token_urlsafe(32), 256 random bits;
\* the n-th call returns the n-th value of a sequence without repetition
generate_api_key(n) == n

\* a create_user that takes no username to be in use
already_exists_never(us, username) == FALSE

\* create_user, line 384: the username is in self.users
already_exists(us, username) == username \in DOMAIN us

create_user(username, password, permissions) ==
    /\ next_key <= MaxKeys
    /\ IF already_exists(users, username)
       THEN /\ ret' = [NoCall EXCEPT !.op = "create_user",
                                     !.username = username,
                                     !.result = "ValueError",
                                     !.raised = "ValueError"]
            /\ UNCHANGED <<users, next_key, users_file>>
       ELSE /\ users' = dict_set(users, username,
                                 User(password, <<generate_api_key(next_key)>>,
                                      permissions, UserRateLimit))
            /\ next_key' = next_key + 1
            /\ users_file' = save_users(users_file, users')
            /\ ret' = [NoCall EXCEPT !.op = "create_user",
                                     !.username = username,
                                     !.result = username,
                                     !.flush = flushed(users_data(users'))]
    /\ UNCHANGED <<scripts, frames, now, strict_ip, sessions, failed_attempts, rate_limits,
                   next_session, tokens, sessions_file, history>>

\* a delete_user that forgets its sessions
revoke_sessions_of_none(ss, username) == ss

\* the cascade of delete_user: every session of the user becomes inactive
revoke_sessions_of(ss, username) ==
    [s \in DOMAIN ss |->
        IF ss[s].user_id = username THEN [ss[s] EXCEPT !.is_active = FALSE]
        ELSE ss[s]]

\* delete_user(username): removes the user and revokes the user's sessions;
\* nothing happens for an unknown name
delete_user(username) ==
    /\ IF username \in DOMAIN users
       THEN /\ users' = dict_del(users, username)
            /\ sessions' = revoke_sessions_of(sessions, username)
            /\ cascaded' = cascaded \cup
                   {s \in DOMAIN sessions : sessions[s].user_id = username}
            /\ orphaned' = orphaned \cup {t \in tokens : t.sub = username}
            /\ users_file' = save_users(users_file, users')
            /\ sessions_file' = save_sessions(sessions_file, sessions')
            /\ ret' = [NoCall EXCEPT
                         !.op = "delete_user", !.username = username,
                         !.flush = IF flushed(users_data(users')) = "done"
                                   THEN flushed(sessions_data(sessions'))
                                   ELSE "failed"]
       ELSE /\ UNCHANGED <<users, sessions, cascaded, orphaned, disk>>
            /\ ret' = [NoCall EXCEPT !.op = "delete_user",
                                     !.username = username]
    /\ UNCHANGED <<scripts, frames, now, strict_ip, failed_attempts, rate_limits, next_session,
                   next_key, tokens, lapsed, admitted>>

\* An activity change of a user record (the field is_active of class User;
\* the store's mutation for it is not part of auth-middleware.py)
deactivate_user(username) ==
    /\ username \in DOMAIN users
    /\ users[username].is_active
    /\ users' = [users EXCEPT ![username].is_active = FALSE]
    /\ users_file' = save_users(users_file, users')
    /\ ret' = [NoCall EXCEPT !.op = "deactivate_user", !.username = username,
                             !.flush = flushed(users_data(users'))]
    /\ UNCHANGED <<scripts, frames, now, strict_ip, sessions, failed_attempts, rate_limits,
                   next_session, next_key, tokens, sessions_file, history>>

----------------------------------------------------------------------------
(* Password login and the failed-attempt window *)

\* a _record_failed_attempt that drops the old attempts and records nothing
record_failed_attempt_none(fa, identifier, t_now) ==
    LET old == IF identifier \in DOMAIN fa THEN fa[identifier] ELSE <<>>
    IN  dict_set(fa, identifier, clean_old(old, t_now))

\* _record_failed_attempt(identifier): drop the attempts older than an hour,
\* append now
record_failed_attempt(fa, identifier, t_now) ==
    LET old == IF identifier \in DOMAIN fa THEN fa[identifier] ELSE <<>>
    IN  dict_set(fa, identifier, Append(clean_old(old, t_now), t_now))


\* is_blocked(identifier)
is_blocked(fa, identifier) ==
    IF identifier \notin DOMAIN fa THEN FALSE
    ELSE Len(fa[identifier]) >= BLOCK_THRESHOLD

\* an authenticate_user that does not look at is_active
login_user_any_activity(us, username) ==
    IF username \in DOMAIN us THEN username ELSE None

\* authenticate_user, lines 242-245: the user the login is for, None when
\* the username is not in the store or the user is not active
login_user(us, username) ==
    IF username \in DOMAIN us /\ us[username].is_active THEN username
    ELSE None

\* authenticate_user(username, password)
authenticate_user(username, password) ==
    /\ IF login_user(users, username) = None
       THEN /\ ret' = [NoCall EXCEPT !.op = "authenticate_user",
                                     !.username = username,
                                     !.password = password]
            /\ UNCHANGED <<users, failed_attempts, users_file>>
       ELSE IF ~pwd_verify(password, users[username].password_hash)
       THEN /\ failed_attempts' =
                   record_failed_attempt(failed_attempts, username, now)
            /\ total_len(failed_attempts') <= MaxFailures
            /\ ret' = [NoCall EXCEPT !.op = "authenticate_user",
                                     !.username = username,
                                     !.password = password,
                                     !.verified = TRUE]
            /\ UNCHANGED <<users, users_file>>
       ELSE /\ users' = [users EXCEPT ![username].last_login = now]
            /\ users_file' = save_users(users_file, users')
            /\ ret' = [NoCall EXCEPT !.op = "authenticate_user",
                                     !.username = username,
                                     !.password = password,
                                     !.verified = TRUE,
                                     !.result = username,
                                     !.permissions =
                                         users[username].permissions,
                                     !.flush = flushed(users_data(users'))]
            /\ UNCHANGED failed_attempts
    /\ UNCHANGED <<scripts, frames, now, strict_ip, sessions, rate_limits, next_session,
                   next_key, tokens, sessions_file, history>>

----------------------------------------------------------------------------
(* The login specification: users, password logins and the clock *)

NextLogin ==
    \/ Tick(ShortStep, ShortHorizon)
    \/ \E u \in Usernames, p \in Passwords : authenticate_user(u, p)
    \/ \E u \in Usernames : create_user(u, "pw2", <<"chat">>)
    \/ \E u \in Usernames : delete_user(u)

SpecLogin == Init /\ [][NextLogin]_vars

\* the failures recorded for an identifier within the trailing hour
recent_failures(identifier) ==
    IF identifier \in DOMAIN failed_attempts
    THEN Len(clean_old(failed_attempts[identifier], now))
    ELSE 0

\* C1: once 5 failures are recorded for a username within the trailing hour,
\* a password login for it with the correct password does not succeed and
\* does not reach the password hash comparison.
C1_LockedLoginRejected ==
    [][\A u \in Usernames :
          (/\ recent_failures(u) >= BLOCK_THRESHOLD
           /\ u \in DOMAIN users
           /\ ret'.op = "authenticate_user"
           /\ ret'.username = u
           /\ pwd_verify(ret'.password, users[u].password_hash))
          => (ret'.result = None /\ ~ret'.verified)]_vars

\* the failures that fa holds for an identifier within the hour ending t_now
failures_in_window(fa, identifier, t_now) ==
    IF identifier \in DOMAIN fa
    THEN Len(SelectSeq(fa[identifier], LAMBDA t : t_now - t < WINDOW))
    ELSE 0

\* C18: for a user who is in the store, active and has fewer than 5 failures
\* within the trailing hour, a password login with the user's password
\* succeeds; with another password it fails and the failures recorded for
\* the username within the trailing hour become one more.
C18_LoginByPassword ==
    [][\A u \in DOMAIN users :
          (/\ ret'.op = "authenticate_user"
           /\ ret'.username = u
           /\ users[u].is_active
           /\ failures_in_window(failed_attempts, u, now) < BLOCK_THRESHOLD)
          => IF pwd_verify(ret'.password, users[u].password_hash)
             THEN /\ ret'.result = u
                  /\ failed_attempts' = failed_attempts
             ELSE /\ ret'.result = None
                  /\ failures_in_window(failed_attempts', u, now) =
                         failures_in_window(failed_attempts, u, now) + 1]_vars

\* a login with a wrong password has failed half an hour after another
\* one: two failures of the username are within the window
C18_Witness ==
    /\ ret.op = "authenticate_user"
    /\ ret.username \in DOMAIN users
    /\ ~pwd_verify(ret.password, users[ret.username].password_hash)
    /\ ret.result = None
    /\ Len(failed_attempts[ret.username]) = 2
    /\ failed_attempts[ret.username][1] < now
    /\ failed_attempts[ret.username][2] = now
    /\ failures_in_window(failed_attempts, ret.username, now) = 2

\* C19: a successful password login sets the user's last_login, writes the
\* user store to its file and creates a new active session of that user; a
\* failed login creates no session.
C19_LoginCreatesSession ==
    [][ret'.op = "authenticate_user" =>
          IF ret'.result # None
          THEN /\ users'[ret'.username].last_login = now
               /\ ret'.flush = "done"
               /\ \E s \in DOMAIN sessions' \ DOMAIN sessions :
                      /\ sessions'[s].user_id = ret'.username
                      /\ sessions'[s].is_active
          ELSE sessions' = sessions]_vars

----------------------------------------------------------------------------
(* Sessions *)

\* class Session
Session(username, expires, ip) ==
    [user_id |-> username, expires_at |-> expires, ip_address |-> ip,
     is_active |-> TRUE]

\* create_session(user, ip_address, user_agent): a new active session under a
\* fresh id, expiring 24 hours from now; user is a User that an
\* authentication returned, in the store and active
\* a session id generator that returns the same string at every call
generate_session_id_repeats(n) == 1

\* create_session, line 298: secrets.token_urlsafe(32), 256 random bits; the
\* n-th call returns the n-th value of a sequence without repetition
generate_session_id(n) == n

create_session(username, ip) ==
    /\ next_session <= MaxSessions
    /\ username \in DOMAIN users
    /\ users[username].is_active
    /\ sessions' = dict_set(sessions, generate_session_id(next_session),
                            Session(username, now + SESSION_TTL, ip))
    /\ next_session' = next_session + 1
    /\ sessions_file' = save_sessions(sessions_file, sessions')
    /\ ret' = [NoCall EXCEPT !.op = "create_session", !.username = username,
                             !.ip_address = ip,
                             !.session_id = generate_session_id(next_session),
                             !.result = username,
                             !.flush = flushed(sessions_data(sessions'))]
    /\ UNCHANGED <<scripts, frames, now, strict_ip, users, failed_attempts, rate_limits,
                   next_key, tokens, users_file, history>>

\* a validate_session that compares the IP address whatever the setting
session_valid_always_strict(ss, session_id, ip, t_now, strict) ==
    IF session_id \notin DOMAIN ss \/ ~ss[session_id].is_active THEN None
    ELSE IF t_now > ss[session_id].expires_at THEN None
    ELSE IF ss[session_id].ip_address # ip THEN None
    ELSE ss[session_id].user_id

\* a validate_session that takes a session to end at expires_at itself
session_valid_ends_early(ss, session_id, ip, t_now, strict) ==
    IF session_id \notin DOMAIN ss \/ ~ss[session_id].is_active THEN None
    ELSE IF t_now >= ss[session_id].expires_at THEN None
    ELSE IF strict /\ ss[session_id].ip_address # ip THEN None
    ELSE ss[session_id].user_id

\* the outcome of validate_session on the session store ss: the session's
\* user_id, or None
session_valid(ss, session_id, ip, t_now, strict) ==
    IF session_id \notin DOMAIN ss \/ ~ss[session_id].is_active THEN None
    ELSE IF t_now > ss[session_id].expires_at THEN None
    ELSE IF strict /\ ss[session_id].ip_address # ip THEN None
    ELSE ss[session_id].user_id

\* a validate_session that never writes is_active
session_expire_never(ss, session_id, t_now) == ss

\* a validate_session that recomputes is_active from expires_at
session_expire_recomputed(ss, session_id, t_now) ==
    IF session_id \in DOMAIN ss
    THEN [ss EXCEPT ![session_id].is_active =
                        ~(t_now > ss[session_id].expires_at)]
    ELSE ss

\* the session store after validate_session: an active session found past
\* its expires_at is made inactive
session_expire(ss, session_id, t_now) ==
    IF /\ session_id \in DOMAIN ss
       /\ ss[session_id].is_active
       /\ t_now > ss[session_id].expires_at
    THEN [ss EXCEPT ![session_id].is_active = FALSE]
    ELSE ss

\* whether validate_session finds an active session past its expires_at
session_lapses(ss, session_id, t_now) ==
    /\ session_id \in DOMAIN ss
    /\ ss[session_id].is_active
    /\ t_now > ss[session_id].expires_at

\* validate_session, line 323: the sessions file is saved when the session
\* was made inactive
session_expire_save(file, ss, session_id, t_now) ==
    IF session_lapses(ss, session_id, t_now)
    THEN save_sessions(file, session_expire(ss, session_id, t_now))
    ELSE file

\* what became of that save
session_expire_flush(ss, session_id, t_now) ==
    IF session_lapses(ss, session_id, t_now)
    THEN flushed(sessions_data(session_expire(ss, session_id, t_now)))
    ELSE "none"

\* validate_session(session_id, ip_address)
validate_session(session_id, ip) ==
    /\ sessions' = session_expire(sessions, session_id, now)
    /\ lapsed' = IF /\ session_id \in DOMAIN sessions
                    /\ now > sessions[session_id].expires_at
                 THEN lapsed \cup {session_id} ELSE lapsed
    /\ sessions_file' = session_expire_save(sessions_file, sessions,
                                            session_id, now)
    /\ ret' = [NoCall EXCEPT
                 !.op = "validate_session", !.session_id = session_id,
                 !.ip_address = ip, !.session_consulted = TRUE,
                 !.result = session_valid(sessions, session_id, ip, now,
                                          strict_ip),
                 !.flush = session_expire_flush(sessions, session_id, now)]
    /\ UNCHANGED <<scripts, frames, now, strict_ip, users, failed_attempts, rate_limits,
                   next_session, next_key, tokens, users_file, cascaded,
                   admitted, orphaned>>

\* revoke_session(session_id)
revoke_session(session_id) ==
    /\ sessions' = IF session_id \in DOMAIN sessions
                   THEN [sessions EXCEPT ![session_id].is_active = FALSE]
                   ELSE sessions
    /\ sessions_file' = IF session_id \in DOMAIN sessions
                        THEN save_sessions(sessions_file, sessions')
                        ELSE sessions_file
    /\ ret' = [NoCall EXCEPT !.op = "revoke_session",
                             !.session_id = session_id,
                             !.flush = IF session_id \in DOMAIN sessions
                                       THEN flushed(sessions_data(sessions'))
                                       ELSE "none"]
    /\ UNCHANGED <<scripts, frames, now, strict_ip, users, failed_attempts, rate_limits,
                   next_session, next_key, tokens, users_file, history>>

\* a sweep that removes a session at its expires_at already
expired_sessions_at_expiry(ss, t_now) ==
    {s \in DOMAIN ss : ss[s].expires_at <= t_now}

\* a sweep that also removes the sessions that are not active
expired_sessions_or_inactive(ss, t_now) ==
    {s \in DOMAIN ss : ss[s].expires_at < t_now \/ ~ss[s].is_active}

\* the ids cleanup_expired_sessions removes
expired_sessions(ss, t_now) == {s \in DOMAIN ss : ss[s].expires_at < t_now}

\* cleanup_expired_sessions(): deletes the sessions whose expires_at is past
\* and returns how many
cleanup_expired_sessions ==
    /\ sessions' = [s \in DOMAIN sessions \ expired_sessions(sessions, now)
                      |-> sessions[s]]
    /\ sessions_file' = IF expired_sessions(sessions, now) # {}
                        THEN save_sessions(sessions_file, sessions')
                        ELSE sessions_file
    /\ ret' = [NoCall EXCEPT !.op = "cleanup_expired_sessions",
                             !.status =
                                Cardinality(expired_sessions(sessions, now)),
                             !.flush =
                                IF expired_sessions(sessions, now) # {}
                                THEN flushed(sessions_data(sessions'))
                                ELSE "none"]
    /\ UNCHANGED <<scripts, frames, now, strict_ip, users, failed_attempts, rate_limits,
                   next_session, next_key, tokens, users_file, history>>

----------------------------------------------------------------------------
(* The session specification: users, sessions and the clock *)

SessionIds == 1..MaxSessions

NextSession ==
    \/ Tick(LongStep, LongHorizon)
    \/ \E u \in Usernames : create_user(u, "pw2", <<"chat">>)
    \/ \E u \in Usernames : delete_user(u)
    \/ \E u \in Usernames : create_session(u, "10.0.0.1")
    \/ \E s \in SessionIds, ip \in IpAddresses : validate_session(s, ip)
    \/ \E s \in SessionIds : revoke_session(s)
    \/ cleanup_expired_sessions

SpecSession == InitAnyIp /\ [][NextSession]_vars

\* C3: after delete_user(u) every session record of u is inactive, and every
\* later validate_session on a session that delete_user deactivated fails.
C3_DeleteRevokesSessions ==
    [][/\ ret'.op = "delete_user" =>
            \A s \in DOMAIN sessions' :
                sessions'[s].user_id = ret'.username
                    => ~sessions'[s].is_active
       /\ (ret'.op = "validate_session" /\ ret'.session_id \in cascaded)
            => ret'.result = None]_vars

\* a session that is not expired, whose user was deleted and created again,
\* has just been refused
C3_Witness ==
    /\ ret.op = "validate_session"
    /\ ret.session_id \in cascaded
    /\ ret.session_id \in DOMAIN sessions
    /\ now <= sessions[ret.session_id].expires_at
    /\ sessions[ret.session_id].user_id \in DOMAIN users
    /\ ret.result = None

C5_ExpiredStaysExpired ==
    [][ret'.op = "validate_session" =>
          /\ (/\ ret'.session_id \in DOMAIN sessions
              /\ now > sessions[ret'.session_id].expires_at)
             => /\ ret'.session_id \in DOMAIN sessions'
                /\ ~sessions'[ret'.session_id].is_active
                /\ ret'.result = None
          /\ ret'.session_id \in lapsed => ret'.result = None]_vars

\* a session that was active until its expiry has been validated after it
\* and is now inactive
C5_Witness ==
    /\ ret.op = "validate_session"
    /\ ret.session_id \in lapsed
    /\ ret.session_id \notin cascaded
    /\ ret.session_id \in DOMAIN sessions
    /\ ~sessions[ret.session_id].is_active
    /\ ret.result = None

\* C6: is_active of a session record never goes from false to true while
\* the record exists.
C6_ActiveIsMonotone ==
    [][\A s \in DOMAIN sessions \cap DOMAIN sessions' :
          ~sessions[s].is_active => ~sessions'[s].is_active]_vars

\* a revoked session that is not expired has been validated and is still
\* inactive
C6_Witness ==
    /\ ret.op = "validate_session"
    /\ ret.session_id \in DOMAIN sessions
    /\ ~sessions[ret.session_id].is_active
    /\ now < sessions[ret.session_id].expires_at
    /\ ret.session_id \notin cascaded

----------------------------------------------------------------------------
(* The rate limiter *)

\* the list of a key, [] when the key is new
window_of(rl, key) == IF key \in DOMAIN rl THEN rl[key] ELSE <<>>

\* a check_rate_limit that admits nobody while an identifier is blocked
rate_admits_unless_blocked(rl, key, limit, t_now) ==
    /\ ~(Len(clean_old(window_of(rl, key), t_now)) >= limit)
    /\ \A id \in DOMAIN failed_attempts : ~is_blocked(failed_attempts, id)

\* a check_rate_limit that admits one request more than rate_limit
rate_admits_one_more(rl, key, limit, t_now) ==
    ~(Len(clean_old(window_of(rl, key), t_now)) > limit)

\* check_rate_limit, its answer: after the old requests are dropped, fewer
\* than rate_limit remain
rate_admits(rl, key, limit, t_now) ==
    ~(Len(clean_old(window_of(rl, key), t_now)) >= limit)

\* a check_rate_limit that appends now also when it rejects
rate_record_rejected_too(rl, key, limit, t_now) ==
    dict_set(rl, key, Append(clean_old(window_of(rl, key), t_now), t_now))

\* check_rate_limit, its effect on self.rate_limits: the old requests are
\* dropped, and now is appended when the request is admitted
rate_record(rl, key, limit, t_now) ==
    dict_set(rl, key,
             IF rate_admits(rl, key, limit, t_now)
             THEN Append(clean_old(window_of(rl, key), t_now), t_now)
             ELSE clean_old(window_of(rl, key), t_now))

\* history: the times at which the checks of a key were admitted
admit_record(log, rl, key, limit, t_now) ==
    IF rate_admits(rl, key, limit, t_now)
    THEN dict_set(log, key, Append(window_of(log, key), t_now))
    ELSE log

\* check_rate_limit(user, endpoint); user is a User of the store
check_rate_limit(username, endpoint) ==
    /\ username \in DOMAIN users
    /\ LET key == rate_key(username, endpoint)
           limit == users[username].rate_limit
       IN  /\ rate_limits' = rate_record(rate_limits, key, limit, now)
           /\ admitted' = admit_record(admitted, rate_limits, key, limit, now)
           /\ ret' = [NoCall EXCEPT
                        !.op = "check_rate_limit", !.username = username,
                        !.endpoint = endpoint,
                        !.result = IF rate_admits(rate_limits, key, limit, now)
                                   THEN "True" ELSE "False"]
    /\ UNCHANGED <<scripts, frames, now, strict_ip, users, sessions, failed_attempts,
                   next_session, next_key, tokens, disk, cascaded, lapsed,
                   orphaned>>

----------------------------------------------------------------------------
(* The rate-limit specification: users, rate-limit checks and the clock *)

NextRate ==
    \/ Tick(ShortStep, ShortHorizon)
    \/ \E u \in Usernames : create_user(u, "pw2", <<"chat">>)
    \/ \E u \in Usernames : delete_user(u)
    \/ \E u \in Usernames, e \in Endpoints : check_rate_limit(u, e)

SpecRate == Init /\ [][NextRate]_vars

\* how many checks of a key were admitted within the hour that ends now
admitted_in_window(key) ==
    Len(SelectSeq(window_of(admitted, key), LAMBDA t : now - t < WINDOW))

\* C10: a check is admitted when fewer than rate_limit = N checks of the same
\* user and endpoint were admitted within the trailing hour (the first N are
\* admitted, and one made when every earlier one is an hour old is admitted
\* again), and rejected when N were (the (N+1)-th is rejected).
C10_RateLimitWindow ==
    [][\A u \in DOMAIN users, e \in Endpoints :
          (/\ ret'.op = "check_rate_limit"
           /\ ret'.username = u
           /\ ret'.endpoint = e)
          => /\ admitted_in_window(rate_key(u, e)) < users[u].rate_limit
                  => ret'.result = "True"
             /\ admitted_in_window(rate_key(u, e)) >= users[u].rate_limit
                  => ret'.result = "False"]_vars

\* N checks were admitted within one hour, they are all an hour old now, and
\* one more check has just been admitted
C10_Witness ==
    /\ ret.op = "check_rate_limit"
    /\ ret.username \in DOMAIN users
    /\ ret.result = "True"
    /\ LET log == window_of(admitted, rate_key(ret.username, ret.endpoint))
           N == users[ret.username].rate_limit
       IN  /\ Len(log) = N + 1
           /\ log[N] - log[1] < WINDOW
           /\ now - log[N] >= WINDOW
           /\ log[N + 1] = now

----------------------------------------------------------------------------
(* check_rate_limit called by several workers at once.  The method takes no
   lock, so the calls of two threads interleave between its statements. *)

\* the other variables of a step inside check_rate_limit
rate_step_frame ==
    /\ ret' = [NoCall EXCEPT !.op = "check_rate_limit_step"]
    /\ UNCHANGED <<scripts, now, strict_ip, users, sessions, failed_attempts,
                   next_session, next_key, tokens, disk, cascaded, lapsed,
                   orphaned>>

\* lines 363-367: now and key are taken, a new key gets an empty list
rate_enter(w, username, endpoint) ==
    /\ frames[w].pc = "idle"
    /\ username \in DOMAIN users
    /\ frames' = [frames EXCEPT ![w] =
                     [pc |-> "clean", username |-> username,
                      endpoint |-> endpoint, t |-> now,
                      limit |-> users[username].rate_limit,
                      used |-> 0, expired |-> {}]]
    /\ rate_limits' =
           IF rate_key(username, endpoint) \in DOMAIN rate_limits
           THEN rate_limits
           ELSE dict_set(rate_limits, rate_key(username, endpoint), <<>>)
    /\ UNCHANGED admitted
    /\ rate_step_frame

\* lines 370-373: the list of the key is replaced by its recent requests
rate_clean(w) ==
    /\ frames[w].pc = "clean"
    /\ LET key == rate_key(frames[w].username, frames[w].endpoint)
       IN  rate_limits' = dict_set(rate_limits, key,
                                   clean_old(rate_limits[key], frames[w].t))
    /\ frames' = [frames EXCEPT ![w].pc = "test"]
    /\ UNCHANGED admitted
    /\ rate_step_frame

\* lines 376-377: the length is compared with user.rate_limit; False is
\* returned when the limit is reached
rate_test(w) ==
    /\ frames[w].pc = "test"
    /\ LET key == rate_key(frames[w].username, frames[w].endpoint)
       IN  IF Len(rate_limits[key]) >= frames[w].limit
           THEN /\ frames' = [frames EXCEPT ![w] = Idle]
                /\ ret' = [NoCall EXCEPT
                             !.op = "check_rate_limit",
                             !.username = frames[w].username,
                             !.endpoint = frames[w].endpoint,
                             !.result = "False"]
           ELSE /\ frames' = [frames EXCEPT ![w].pc = "append"]
                /\ ret' = [NoCall EXCEPT !.op = "check_rate_limit_step"]
    /\ UNCHANGED <<scripts, now, strict_ip, users, sessions, failed_attempts,
                   rate_limits, next_session, next_key, tokens, disk,
                   history>>

\* lines 379-380: now is appended and True is returned
rate_append(w) ==
    /\ frames[w].pc = "append"
    /\ LET key == rate_key(frames[w].username, frames[w].endpoint)
       IN  /\ rate_limits' = dict_set(rate_limits, key,
                                      Append(rate_limits[key], frames[w].t))
           /\ admitted' = dict_set(admitted, key,
                                   Append(window_of(admitted, key),
                                          frames[w].t))
    /\ frames' = [frames EXCEPT ![w] = Idle]
    /\ ret' = [NoCall EXCEPT
                 !.op = "check_rate_limit", !.username = frames[w].username,
                 !.endpoint = frames[w].endpoint, !.result = "True"]
    /\ UNCHANGED <<scripts, now, strict_ip, users, sessions, failed_attempts,
                   next_session, next_key, tokens, disk, cascaded, lapsed,
                   orphaned>>

NextWorkers ==
    \/ Tick(ShortStep, ShortHorizon)
    \/ \E w \in Workers, e \in Endpoints : rate_enter(w, "admin", e)
    \/ \E w \in Workers : rate_clean(w)
    \/ \E w \in Workers : rate_test(w)
    \/ \E w \in Workers : rate_append(w)

SpecWorkers == Init /\ [][NextWorkers]_vars

\* how many checks of a key were admitted within the hour that ends at t
admitted_within(key, t) ==
    Len(SelectSeq(window_of(admitted, key),
                  LAMBDA x : x <= t /\ t - x < WINDOW))

\* C11: whatever the interleaving of the check_rate_limit calls of several
\* workers on one (user, endpoint) key, no more than the user's rate_limit
\* checks are admitted within any one hour.
C11_NoOverAdmission ==
    \A u \in DOMAIN users, e \in Endpoints :
        \A i \in DOMAIN window_of(admitted, rate_key(u, e)) :
            admitted_within(rate_key(u, e),
                            window_of(admitted, rate_key(u, e))[i])
                <= users[u].rate_limit

----------------------------------------------------------------------------
(* Bearer credentials: JWTs and API keys *)

\* the string after "Bearer ": a JWT (its payload, and whether its signature
\* verifies under self.jwt_secret), or an API key
Jwt(sub, exp, perms, signed) ==
    [kind |-> "jwt", permissions |-> perms, sub |-> sub, exp |-> exp,
     signed |-> signed, key |-> 0]
ApiKey(k) ==
    [kind |-> "key", permissions |-> <<>>, sub |-> None, exp |-> 0,
     signed |-> FALSE, key |-> k]

\* the Authorization header: absent, "Bearer <token>", or another scheme
Header(scheme, token) == [scheme |-> scheme, token |-> token]

\* generate_jwt_token(user): a signed token for the user's name and
\* permissions that expires after jwt_expiry; user is a User that an
\* authentication returned, in the store and active
generate_jwt_token(username) ==
    /\ Cardinality(tokens) < MaxTokens
    /\ username \in DOMAIN users
    /\ users[username].is_active
    /\ LET token == Jwt(username, now + JWT_EXPIRY,
                        users[username].permissions, TRUE)
       IN  /\ tokens' = tokens \cup {token}
           /\ ret' = [NoCall EXCEPT !.op = "generate_jwt_token",
                                    !.username = username, !.bearer = token,
                                    !.result = username]
    /\ UNCHANGED <<scripts, frames, now, strict_ip, users, sessions, failed_attempts,
                   rate_limits, next_session, next_key, disk, history>>

\* jwt.decode and payload.get("sub"): the subject of a token that is signed
\* with the secret and not expired (PyJWT: expired when exp <= now)
jwt_subject(token, t_now) ==
    IF token.kind = "jwt" /\ token.signed /\ ~(token.exp <= t_now)
    THEN token.sub ELSE None

\* an authenticate_jwt that trusts the token without looking the user up
jwt_user_unchecked(us, token, t_now) == jwt_subject(token, t_now)

\* authenticate_jwt(token), its answer: the user named by a valid token, when
\* in the store and active
jwt_user(us, token, t_now) ==
    LET username == jwt_subject(token, t_now)
    IN  IF username = None THEN None
        ELSE IF username \notin DOMAIN us \/ ~us[username].is_active THEN None
        ELSE username

\* the elements of a list
elements(list) == {list[i] : i \in DOMAIN list}

\* authenticate_api_key(api_key), its answer: the active user whose api_keys
\* hold the key
api_key_user(us, token) ==
    LET holders == {u \in DOMAIN us : /\ token.kind = "key"
                                       /\ token.key \in elements(us[u].api_keys)
                                       /\ us[u].is_active}
    IN  IF holders = {} THEN None ELSE CHOOSE u \in holders : TRUE

\* authenticate_jwt(token)
authenticate_jwt(token) ==
    /\ ret' = [NoCall EXCEPT
                 !.op = "authenticate_jwt", !.bearer = token,
                 !.result = jwt_user(users, token, now),
                 !.via = "jwt"]
    /\ UNCHANGED <<scripts, frames, now, strict_ip, users, sessions, failed_attempts,
                   rate_limits, next_session, next_key, tokens, disk,
                   history>>

\* authenticate_api_key(api_key)
authenticate_api_key(token) ==
    /\ ret' = [NoCall EXCEPT
                 !.op = "authenticate_api_key", !.bearer = token,
                 !.result = api_key_user(users, token),
                 !.via = "api_key"]
    /\ UNCHANGED <<scripts, frames, now, strict_ip, users, sessions, failed_attempts,
                   rate_limits, next_session, next_key, tokens, disk,
                   history>>

----------------------------------------------------------------------------
(* The request wrapper of AuthenticationRequired *)

\* the lookup of the session cookie: validate_session, then users.get
session_user(us, ss, cookie, ip, t_now, strict) ==
    LET owner == session_valid(ss, cookie, ip, t_now, strict)
    IN  [user |-> IF owner # None /\ owner \in DOMAIN us THEN owner ELSE None,
         via |-> "session", session_consulted |-> TRUE]

\* the lookup of a bearer token: authenticate_jwt, then authenticate_api_key
bearer_user(us, token, t_now) ==
    IF jwt_user(us, token, t_now) # None
    THEN [user |-> jwt_user(us, token, t_now), via |-> "jwt",
          session_consulted |-> FALSE]
    ELSE [user |-> api_key_user(us, token), via |-> "api_key",
          session_consulted |-> FALSE]

\* a wrapper that tries the session cookie before the Authorization header
resolve_session_first(us, ss, header, cookie, ip, t_now, strict) ==
    IF cookie # 0 THEN session_user(us, ss, cookie, ip, t_now, strict)
    ELSE IF header.scheme = "Bearer" THEN bearer_user(us, header.token, t_now)
    ELSE [user |-> None, via |-> None, session_consulted |-> FALSE]

\* a wrapper that falls back to the session cookie when the bearer fails
resolve_falls_through(us, ss, header, cookie, ip, t_now, strict) ==
    IF /\ header.scheme = "Bearer"
       /\ (bearer_user(us, header.token, t_now).user # None \/ cookie = 0)
    THEN bearer_user(us, header.token, t_now)
    ELSE IF cookie # 0 THEN session_user(us, ss, cookie, ip, t_now, strict)
    ELSE [user |-> None, via |-> None, session_consulted |-> FALSE]

\* wrapper, lines 499-521: the user the request's credentials resolve to, by
\* which path, and whether validate_session was called
resolve(us, ss, header, cookie, ip, t_now, strict) ==
    IF header.scheme = "Bearer" THEN bearer_user(us, header.token, t_now)
    ELSE IF cookie # 0 THEN session_user(us, ss, cookie, ip, t_now, strict)
    ELSE [user |-> None, via |-> None, session_consulted |-> FALSE]

\* a wrapper that checks the permissions a token of the user holds
status_of_token_permissions(us, rl, username, required, endpoint, t_now) ==
    IF username = None \/ username \notin DOMAIN us THEN 401
    ELSE LET held == {t \in tokens : t.sub = username}
             permissions == IF held = {} THEN us[username].permissions
                            ELSE (CHOOSE t \in held : TRUE).permissions
         IN  IF required # {} /\ required \cap elements(permissions) = {}
             THEN 403
             ELSE IF Len(clean_old(window_of(rl, rate_key(username, endpoint)),
                                   t_now)) >= us[username].rate_limit
             THEN 429
             ELSE 200

\* a wrapper that does not ask the rate limiter
status_of_unlimited(us, rl, username, required, endpoint, t_now) ==
    IF username = None \/ username \notin DOMAIN us THEN 401
    ELSE IF required # {} /\ required \cap elements(us[username].permissions) = {}
    THEN 403
    ELSE 200

\* a wrapper that demands every required permission
status_of_all(us, rl, username, required, endpoint, t_now) ==
    IF username = None \/ username \notin DOMAIN us THEN 401
    ELSE IF required # {} /\ ~(required \subseteq elements(us[username].permissions))
    THEN 403
    ELSE IF ~rate_admits(rl, rate_key(username, endpoint),
                         us[username].rate_limit, t_now)
    THEN 429
    ELSE 200

\* wrapper, lines 523-538: 401 without a user, 403 when permissions are
\* required and the user holds none of them, 429 when the rate limit
\* refuses, else the handler runs (200)
status_of(us, rl, username, required, endpoint, t_now) ==
    IF username = None \/ username \notin DOMAIN us THEN 401
    ELSE IF required # {} /\ required \cap elements(us[username].permissions) = {}
    THEN 403
    ELSE IF ~rate_admits(rl, rate_key(username, endpoint),
                         us[username].rate_limit, t_now)
    THEN 429
    ELSE 200

\* wrapper(request): one request through the decorator
wrapper(header, cookie, ip, required, endpoint) ==
    LET found == resolve(users, sessions, header, cookie, ip, now, strict_ip)
        status == status_of(users, rate_limits, found.user, required,
                            endpoint, now)
        key == rate_key(found.user, endpoint)
    IN  /\ sessions' = IF found.session_consulted
                       THEN session_expire(sessions, cookie, now)
                       ELSE sessions
        /\ lapsed' = IF /\ found.session_consulted
                        /\ cookie \in DOMAIN sessions
                        /\ now > sessions[cookie].expires_at
                     THEN lapsed \cup {cookie} ELSE lapsed
        /\ IF status \in {429, 200}
           THEN rate_limits' = rate_record(rate_limits, key,
                                      users[found.user].rate_limit, now)
           ELSE UNCHANGED rate_limits
        /\ ret' = [NoCall EXCEPT
                     !.op = "wrapper", !.scheme = header.scheme,
                     !.bearer = header.token, !.session_id = cookie,
                     !.ip_address = ip, !.required = required,
                     !.endpoint = endpoint, !.result = found.user,
                     !.permissions = IF found.user \in DOMAIN users
                                     THEN users[found.user].permissions
                                     ELSE <<>>,
                     !.via = found.via,
                     !.session_consulted = found.session_consulted,
                     !.status = status,
                     !.flush = IF found.session_consulted
                               THEN session_expire_flush(sessions, cookie, now)
                               ELSE "none"]
        /\ sessions_file' = IF found.session_consulted
                            THEN session_expire_save(sessions_file, sessions,
                                                     cookie, now)
                            ELSE sessions_file
        /\ UNCHANGED <<scripts, frames, now, strict_ip, users, failed_attempts, next_session,
                       next_key, tokens, users_file, cascaded, admitted,
                       orphaned>>

----------------------------------------------------------------------------
(* The dispatch specification: users, tokens, sessions, requests *)

\* tokens that were not signed with the secret
ForgedTokens == {Jwt("admin", LongHorizon + JWT_EXPIRY, <<"admin">>, FALSE)}

\* the Authorization headers of a request: none, or a bearer that is a token
\* issued, a forged token, an API key issued or one never issued
Headers ==
    {Header("none", NoToken)}
    \cup {Header("Bearer", t) : t \in tokens \cup ForgedTokens}
    \cup {Header("Bearer", ApiKey(k)) : k \in 1..next_key}

\* the session_id cookies of a request; 0 when there is none
Cookies == 0..(next_session - 1)

\* users, tokens and sessions are set up before the clock advances; the
\* requests of one behaviour arrive either before the advance or after it
NextDispatch ==
    \/ rate_limits = EmptyDict /\ Tick(DispatchStep, DispatchHorizon)
    \/ now = 0 /\ create_user("alice", "pw2", <<"chat">>)
    \/ now = 0 /\ delete_user("alice")
    \/ now = 0 /\ deactivate_user("alice")
    \/ \E u \in Usernames : now = 0 /\ generate_jwt_token(u)
    \/ \E u \in Usernames :
           /\ now = 0
           /\ next_session <= DispatchSessions
           /\ create_session(u, "10.0.0.1")
    \/ \E t \in tokens \cup ForgedTokens : authenticate_jwt(t)
    \/ \E h \in Headers, c \in Cookies :
           wrapper(h, c, "10.0.0.1", {}, "/api/chat")

SpecDispatch == Init /\ [][NextDispatch]_vars

\* token verification succeeds for user u: the token is signed, not expired,
\* and names u, who is in the store and active
token_valid_for(token, u) ==
    /\ token.kind = "jwt" /\ token.signed /\ now < token.exp /\ token.sub = u
    /\ u \in DOMAIN users /\ users[u].is_active

\* API-key resolution succeeds for user u
key_valid_for(token, u) ==
    /\ token.kind = "key"
    /\ u \in DOMAIN users /\ users[u].is_active
    /\ \E i \in DOMAIN users[u].api_keys : users[u].api_keys[i] = token.key

\* the cookie names an active, unexpired session of user u, who is in the
\* store
cookie_valid_for(cookie, ip, u) ==
    /\ cookie \in DOMAIN sessions
    /\ sessions[cookie].is_active
    /\ now <= sessions[cookie].expires_at
    /\ strict_ip => sessions[cookie].ip_address = ip
    /\ sessions[cookie].user_id = u
    /\ u \in DOMAIN users

\* C2: no authentication path (password login, bearer token, API key,
\* session cookie) yields a principal whose is_active is false.
C2_InactiveNeverAuthenticated ==
    (/\ ret.op \in {"authenticate_user", "authenticate_jwt",
                    "authenticate_api_key", "wrapper"}
     /\ ret.result # None)
    => (ret.result \in DOMAIN users /\ users[ret.result].is_active)

\* C7: a request with a valid bearer token of user A and a valid session
\* cookie of another user B is authenticated as A, with A's permissions.
C7_TokenBeforeSession ==
    \A A \in Usernames, B \in Usernames :
        (/\ ret.op = "wrapper"
         /\ ret.scheme = "Bearer"
         /\ A # B
         /\ token_valid_for(ret.bearer, A)
         /\ cookie_valid_for(ret.session_id, ret.ip_address, B))
        => (/\ ret.result = A
            /\ ret.permissions = users[A].permissions
            /\ ret.via = "jwt")

\* such a request has been let through as A
C7_Witness ==
    \E A \in Usernames, B \in Usernames :
        /\ ret.op = "wrapper"
        /\ ret.scheme = "Bearer"
        /\ A # B
        /\ token_valid_for(ret.bearer, A)
        /\ cookie_valid_for(ret.session_id, ret.ip_address, B)
        /\ ret.result = A
        /\ ret.status = 200

\* C8: when a bearer credential is present and neither token verification
\* nor API-key resolution succeeds for it, the request is denied and the
\* session store is not consulted, whatever cookie the request carries.
C8_FailedBearerDenied ==
    [][(/\ ret'.op = "wrapper"
        /\ ret'.scheme = "Bearer"
        /\ \A u \in Usernames : ~token_valid_for(ret'.bearer, u)
        /\ \A u \in Usernames : ~key_valid_for(ret'.bearer, u))
       => (/\ ret'.status = 401
           /\ ret'.result = None
           /\ ~ret'.session_consulted
           /\ sessions' = sessions)]_vars

\* a request with a failing bearer credential and a valid session cookie has
\* been denied
C8_Witness ==
    /\ ret.op = "wrapper"
    /\ ret.scheme = "Bearer"
    /\ \E u \in Usernames :
           cookie_valid_for(ret.session_id, ret.ip_address, u)
    /\ ret.status = 401

\* C9: a correctly signed, unexpired token is refused when the user it names
\* is not in the store or is inactive.
C9_TokenOfMissingUserRefused ==
    (/\ ret.op \in {"authenticate_jwt", "wrapper"}
     /\ ret.bearer.kind = "jwt"
     /\ ret.bearer.signed
     /\ now < ret.bearer.exp
     /\ \/ ret.bearer.sub \notin DOMAIN users
        \/ ~users[ret.bearer.sub].is_active)
    => ret.result = None

\* the signed, unexpired token of a deleted user has been refused
C9_Witness ==
    /\ ret.op = "authenticate_jwt"
    /\ ret.bearer.kind = "jwt"
    /\ ret.bearer.signed
    /\ now < ret.bearer.exp
    /\ ret.bearer.sub \notin DOMAIN users
    /\ ret.result = None

----------------------------------------------------------------------------
(* API keys *)

\* list.remove(x): the list without the first x
RECURSIVE list_remove(_, _)
list_remove(list, x) ==
    IF list = <<>> THEN <<>>
    ELSE IF Head(list) = x THEN Tail(list)
    ELSE <<Head(list)>> \o list_remove(Tail(list), x)

\* generate_new_api_key(username): a fresh key is appended to the user's
\* api_keys; ValueError for an unknown user
generate_new_api_key(username) ==
    /\ next_key <= MaxKeys
    /\ IF username \notin DOMAIN users
       THEN /\ ret' = [NoCall EXCEPT !.op = "generate_new_api_key",
                                     !.username = username,
                                     !.raised = "ValueError"]
            /\ UNCHANGED <<users, next_key, users_file>>
       ELSE /\ users' = [users EXCEPT ![username].api_keys =
                                          Append(@, generate_api_key(next_key))]
            /\ next_key' = next_key + 1
            /\ users_file' = save_users(users_file, users')
            /\ ret' = [NoCall EXCEPT !.op = "generate_new_api_key",
                                     !.username = username,
                                     !.key = generate_api_key(next_key),
                                     !.result = username,
                                     !.flush = flushed(users_data(users'))]
    /\ UNCHANGED <<scripts, frames, now, strict_ip, sessions, failed_attempts,
                   rate_limits, next_session, tokens, sessions_file, history>>

\* a revoke_api_key that drops every key of the user
revoke_key_all(us, username, k) ==
    IF username \notin DOMAIN us THEN us
    ELSE IF k \notin elements(us[username].api_keys) THEN us
    ELSE [us EXCEPT ![username].api_keys = <<>>]

\* revoke_api_key, its effect on self.users: the key is removed from the
\* user's api_keys; nothing for an unknown user or a key the user has not
revoke_key(us, username, k) ==
    IF username \notin DOMAIN us THEN us
    ELSE IF k \notin elements(us[username].api_keys) THEN us
    ELSE [us EXCEPT ![username].api_keys = list_remove(@, k)]

\* revoke_api_key(username, api_key)
revoke_api_key(username, k) ==
    /\ users' = revoke_key(users, username, k)
    /\ IF username \in DOMAIN users /\ k \in elements(users[username].api_keys)
       THEN /\ users_file' = save_users(users_file, users')
            /\ ret' = [NoCall EXCEPT !.op = "revoke_api_key",
                                     !.username = username, !.key = k,
                                     !.flush = flushed(users_data(users'))]
       ELSE /\ UNCHANGED users_file
            /\ ret' = [NoCall EXCEPT !.op = "revoke_api_key",
                                     !.username = username, !.key = k]
    /\ UNCHANGED <<scripts, frames, now, strict_ip, sessions, failed_attempts,
                   rate_limits, next_session, next_key, tokens, sessions_file,
                   history>>

----------------------------------------------------------------------------
(* Startup: loading the stores, the default admin, restarts and crashes *)

\* User(**user_data), line 149: the fields as they are in the JSON, so
\* last_login stays the text that isoformat wrote
user_of_data(d) ==
    [password_hash |-> d.password_hash, api_keys |-> d.api_keys,
     permissions |-> d.permissions, last_login |-> d.last_login,
     is_active |-> d.is_active, rate_limit |-> d.rate_limit]

\* Session(...), lines 198-206: the datetimes are read back with
\* fromisoformat
session_of_data(d) ==
    [user_id |-> d.user_id, expires_at |-> fromisoformat(d.expires_at),
     ip_address |-> d.ip_address, is_active |-> d.is_active]

\* lines 141-145 and 190-194: the file is read, decrypted and parsed; any
\* of the steps may raise
read_store(file) ==
    LET decrypted_data == decrypt(file)
    IN  IF decrypted_data.raised # None THEN decrypted_data
        ELSE json_loads(decrypted_data.value)

\* _load_users, lines 135-155: the mapping read from the users file; {} when
\* there is no file, and {} when any step raises
load_users(file) ==
    IF file.kind = "absent" THEN EmptyDict
    ELSE LET users_read == read_store(file)
         IN  IF users_read.raised # None THEN EmptyDict
             ELSE [u \in DOMAIN users_read.value |->
                      user_of_data(users_read.value[u])]

\* _load_sessions, lines 184-212: the same for the sessions file
load_sessions(file) ==
    IF file.kind = "absent" THEN EmptyDict
    ELSE LET sessions_read == read_store(file)
         IN  IF sessions_read.raised # None THEN EmptyDict
             ELSE [s \in DOMAIN sessions_read.value |->
                      session_of_data(sessions_read.value[s])]

\* __init__, lines 74-79: whether the default admin is created
bootstraps(file) == DOMAIN load_users(file) = {}

\* __init__, lines 74-79: self.users of a manager that starts on the users
\* file, its default admin getting the API key k
started_users(file, k) ==
    IF bootstraps(file)
    THEN [u \in {"admin"} |->
             [default_admin EXCEPT !.api_keys = <<generate_api_key(k)>>]]
    ELSE load_users(file)

\* AuthenticationManager(): a manager starts on the two files as they are
\* left in users_file' and sessions_file' by what came before
starts ==
    /\ users' = started_users(users_file', next_key)
    /\ sessions' = load_sessions(sessions_file')
    /\ next_key' = IF bootstraps(users_file') THEN next_key + 1 ELSE next_key
    /\ failed_attempts' = EmptyDict
    /\ rate_limits' = EmptyDict
    /\ frames' = [w \in Workers |-> Idle]
    /\ UNCHANGED <<scripts, now, strict_ip, next_session, tokens, history>>

\* the process is restarted: a new AuthenticationManager is constructed on
\* the files; the save of _create_default_admin is its only write
restart ==
    /\ next_key <= MaxKeys
    /\ users_file' =
           IF bootstraps(users_file)
           THEN save_users(users_file, started_users(users_file, next_key))
           ELSE users_file
    /\ UNCHANGED sessions_file
    /\ starts
    /\ ret' = [NoCall EXCEPT
                 !.op = "__init__",
                 !.flush = IF bootstraps(users_file)
                           THEN flushed(users_data(users')) ELSE "none"]

\* the process is killed inside the _save_users() of create_user(username,
\* "pw2", ["chat"]), at a crash point that the save reaches; then the
\* process is started again
crash_in_save_users(username, crash) ==
    /\ next_key < MaxKeys
    /\ username \notin DOMAIN users
    /\ LET new_users == dict_set(users, username,
                                 User("pw2", <<generate_api_key(next_key)>>,
                                      <<"chat">>, UserRateLimit))
       IN  /\ crash_reached(users_data(new_users), crash)
           /\ users_file' = save_file(users_file, users_data(new_users), crash)
           /\ ret' = [NoCall EXCEPT
                        !.op = "crash_in_save_users", !.username = username,
                        !.crash = crash, !.left = users_file',
                        !.data = users_data(new_users)]
    /\ UNCHANGED sessions_file
    /\ users' = started_users(users_file', next_key + 1)
    /\ sessions' = load_sessions(sessions_file')
    /\ next_key' = IF bootstraps(users_file') THEN next_key + 2
                   ELSE next_key + 1
    /\ failed_attempts' = EmptyDict
    /\ rate_limits' = EmptyDict
    /\ frames' = [w \in Workers |-> Idle]
    /\ UNCHANGED <<scripts, now, strict_ip, next_session, tokens, history>>

\* the same inside the _save_sessions() of create_session(user, ip, ..)
crash_in_save_sessions(username, ip, crash) ==
    /\ next_session <= MaxSessions
    /\ next_key <= MaxKeys
    /\ username \in DOMAIN users
    /\ users[username].is_active
    /\ LET new_sessions == dict_set(sessions,
                                    generate_session_id(next_session),
                                    Session(username, now + SESSION_TTL, ip))
       IN  /\ crash_reached(sessions_data(new_sessions), crash)
           /\ sessions_file' = save_file(sessions_file,
                                         sessions_data(new_sessions), crash)
           /\ ret' = [NoCall EXCEPT
                        !.op = "crash_in_save_sessions",
                        !.username = username, !.ip_address = ip,
                        !.crash = crash, !.left = sessions_file',
                        !.data = sessions_data(new_sessions)]
    /\ UNCHANGED users_file
    /\ users' = started_users(users_file', next_key)
    /\ sessions' = load_sessions(sessions_file')
    /\ next_key' = IF bootstraps(users_file') THEN next_key + 1 ELSE next_key
    /\ next_session' = next_session + 1
    /\ failed_attempts' = EmptyDict
    /\ rate_limits' = EmptyDict
    /\ frames' = [w \in Workers |-> Idle]
    /\ UNCHANGED <<scripts, now, strict_ip, tokens, history>>

\* a users store that an earlier deployment left in the data directory
StoredUsers ==
    [u \in {"alice"} |-> User("pw2", <<MaxKeys + 1>>, <<"chat">>,
                              UserRateLimit)]

\* what the data directory may hold when the first manager starts: no
\* store files, files that do not decrypt, or a users file that decrypts
DataDirs ==
    {<<Absent, Absent>>, <<Corrupt, Corrupt>>,
     <<Encrypted(users_data(StoredUsers)), Absent>>}

\* the state after AuthenticationManager() on such a data directory
InitPersist ==
    /\ now = 0
    /\ strict_ip = FALSE
    /\ \E dir \in DataDirs : users_file = dir[1] /\ sessions_file = dir[2]
    /\ users = started_users(users_file, 1)
    /\ sessions = load_sessions(sessions_file)
    /\ failed_attempts = EmptyDict
    /\ rate_limits = EmptyDict
    /\ next_session = 1
    /\ next_key = IF bootstraps(users_file) THEN 2 ELSE 1
    /\ tokens = {}
    /\ frames = [w \in Workers |-> Idle]
    /\ ret = [NoCall EXCEPT !.op = "__init__",
                            !.flush = IF bootstraps(users_file)
                                      THEN flushed(users_data(users))
                                      ELSE "none"]
    /\ cascaded = {}
    /\ lapsed = {}
    /\ admitted = EmptyDict
    /\ orphaned = {}
    /\ download = NoDownload
    /\ privacy = FirstManager

NextPersist ==
    \/ \E u \in Usernames : create_user(u, "pw2", <<"chat">>)
    \/ \E u \in Usernames : delete_user(u)
    \/ \E u \in DOMAIN users : authenticate_user(u, users[u].password_hash.of)
    \/ \E u \in Usernames : create_session(u, "10.0.0.1")
    \/ \E s \in SessionIds : revoke_session(s)
    \/ restart
    \/ \E u \in Usernames, c \in CrashPoints \ {"none"} :
           crash_in_save_users(u, c)
    \/ \E u \in Usernames, c \in CrashPoints \ {"none"} :
           crash_in_save_sessions(u, "10.0.0.1", c)

SpecPersist == InitPersist /\ [][NextPersist]_vars

\* the operations that change a store and then save it
MutatingOps ==
    {"create_user", "delete_user", "generate_new_api_key", "revoke_api_key",
     "create_session", "revoke_session", "authenticate_user"}

\* C12: when the save of a mutating operation fails, the operation reports
\* the failure to its caller and the in-memory stores are as they were (the
\* files are: a failed save leaves them as they were).
C12_FailedFlushFailsOperation ==
    [][(ret'.op \in MutatingOps /\ ret'.flush = "failed")
       => (/\ ret'.raised # None
           /\ users' = users
           /\ sessions' = sessions)]_vars

\* a store file that encodes a mapping; no sessions file stands for no
\* sessions
encodes(file, data) ==
    \/ file = Encrypted(data)
    \/ file = Absent /\ DOMAIN data = {}

\* C13: whenever no store operation is in progress, the users file and the
\* sessions file encode the in-memory users and sessions.
C13_FilesEncodeMemory ==
    (\A w \in Workers : frames[w].pc = "idle")
    => (/\ encodes(users_file, users_data(users))
        /\ encodes(sessions_file, sessions_data(sessions)))

\* a file that exists and is not a ciphertext under the key
unreadable(file) == file.kind \notin {"absent", "encrypted"}

\* C14: a manager that starts on a users file or sessions file that exists
\* and cannot be decrypted reports a startup error and creates no default
\* admin.
C14_CorruptStoreStopsStartup ==
    [][(/\ ret'.op = "__init__"
        /\ unreadable(users_file) \/ unreadable(sessions_file))
       => (/\ ret'.raised # None
           /\ ~bootstraps(users_file))]_vars

\* C15: a manager that starts on the files its predecessor saved holds the
\* predecessor's users and sessions, field by field.  (Every operation that
\* changes a store ends with a save of it, so both stores are saved at every
\* restart.)
C15_SaveLoadRoundTrip ==
    [][ret'.op = "__init__"
       => (users' = users /\ sessions' = sessions)]_vars

----------------------------------------------------------------------------
(* The API-key specification: users and their keys *)

NextKeys ==
    \/ \E u \in Usernames : create_user(u, "pw2", <<"chat">>)
    \/ \E u \in Usernames : delete_user(u)
    \/ \E u \in Usernames : generate_new_api_key(u)
    \/ \E u \in Usernames, k \in 1..MaxKeys : revoke_api_key(u, k)
    \/ \E k \in 1..MaxKeys : authenticate_api_key(ApiKey(k))

SpecKeys == Init /\ [][NextKeys]_vars

\* C17: revoke_api_key(u, k) for a key k of user u leaves k resolving to no
\* user, every other key of u resolving to u, and every other user and every
\* other field of u as they were; for an unknown user or a key that u has
\* not it changes nothing; it raises no error.
C17_RevokeRemovesOnlyThatKey ==
    [][ret'.op = "revoke_api_key" =>
          LET u == ret'.username
              k == ret'.key
          IN  /\ ret'.raised = None
              /\ IF u \in DOMAIN users /\ k \in elements(users[u].api_keys)
                 THEN /\ api_key_user(users', ApiKey(k)) = None
                      /\ \A j \in elements(users[u].api_keys) \ {k} :
                            api_key_user(users', ApiKey(j)) = u
                      /\ DOMAIN users' = DOMAIN users
                      /\ \A v \in DOMAIN users \ {u} : users'[v] = users[v]
                      /\ [users'[u] EXCEPT !.api_keys = <<>>] =
                             [users[u] EXCEPT !.api_keys = <<>>]
                 ELSE users' = users]_vars

\* one of two keys of a user has been revoked while another user holds a key:
\* the revoked key resolves to nobody, the user's other key to the user
C17_Witness ==
    /\ ret.op = "revoke_api_key"
    /\ ret.flush # "none"
    /\ ret.username \in DOMAIN users
    /\ api_key_user(users, ApiKey(ret.key)) = None
    /\ \E j \in elements(users[ret.username].api_keys) :
           api_key_user(users, ApiKey(j)) = ret.username
    /\ \E v \in DOMAIN users \ {ret.username} : users[v].api_keys # <<>>

----------------------------------------------------------------------------
(* The permission specification: requests to handlers that require
   permissions *)

\* the permissions a decorated handler may require
Permissions == {"admin", "chat", "models"}

NextPermissions ==
    \/ \E perms \in PermissionLists : create_user("alice", "pw2", perms)
    \/ delete_user("alice")
    \/ \E k \in 1..MaxKeys, required \in SUBSET Permissions :
           wrapper(Header("Bearer", ApiKey(k)), 0, "10.0.0.1", required,
                   "/api/chat")

SpecPermissions == Init /\ [][NextPermissions]_vars

\* C20: when the handler requires a non-empty list of permissions, an
\* authenticated request passes the permission check if and only if the
\* user holds at least one of them.
C20_AnyPermissionSuffices ==
    (/\ ret.op = "wrapper"
     /\ ret.result # None
     /\ ret.required # {})
    => (ret.status # 403 <=> ret.required \cap elements(ret.permissions) # {})

\* a request to a handler that requires two permissions, by a user who holds
\* one of them and not the other, has been let through
C20_Witness ==
    /\ ret.op = "wrapper"
    /\ ret.result # None
    /\ Cardinality(ret.required) = 2
    /\ Cardinality(ret.required \cap elements(ret.permissions)) = 1
    /\ ret.status = 200

\* the requests of a key that rl holds within the hour ending t_now
requests_in_window(rl, key, t_now) ==
    Len(SelectSeq(window_of(rl, key), LAMBDA t : t_now - t < WINDOW))

NextKeyring ==
    \/ \E u \in Usernames : create_user(u, "pw2", <<"chat">>)
    \/ \E u \in Usernames : delete_user(u)
    \/ \E u \in Usernames : generate_new_api_key(u)
    \/ \E u \in Usernames, k \in 1..MaxKeys : revoke_api_key(u, k)
    \/ restart

SpecKeyring == Init /\ [][NextKeyring]_vars

\* C22: every API key belongs to at most one user, and occurs at most once
\* in that user's api_keys.
C22_KeyBelongsToOneUser ==
    \A u \in DOMAIN users, v \in DOMAIN users :
        \A i \in DOMAIN users[u].api_keys, j \in DOMAIN users[v].api_keys :
            users[u].api_keys[i] = users[v].api_keys[j] => (u = v /\ i = j)

\* two users hold keys, one of them two keys
C22_Witness ==
    /\ Cardinality(DOMAIN users) = 2
    /\ \E u \in DOMAIN users : Len(users[u].api_keys) = 2
    /\ \A u \in DOMAIN users : Len(users[u].api_keys) >= 1

\* the usernames that a users file holds: those of the mapping it decrypts
\* to, none when there is no file or it does not decrypt
stored_usernames(file) ==
    IF file.kind = "encrypted" THEN DOMAIN file.data ELSE {}

call_is_blocked(identifier) ==
    /\ ret' = [NoCall EXCEPT
                 !.op = "is_blocked",
                 !.username = identifier,
                 !.result = IF is_blocked(failed_attempts, identifier)
                            THEN "True" ELSE "False"]
    /\ UNCHANGED <<scripts, frames, now, strict_ip, users, sessions, failed_attempts,
                   rate_limits, next_session, next_key, tokens, disk,
                   history>>

NextLockout ==
    \/ Tick(ShortStep, ShortHorizon)
    \/ \E p \in Passwords : authenticate_user("admin", p)
    \/ \E u \in Usernames : call_is_blocked(u)

SpecLockout == Init /\ [][NextLockout]_vars

\* C24: is_blocked(identifier) returns True exactly when at least 5 of the
\* failures recorded for the identifier lie within the hour that ends at the
\* call; so it returns False again once time has passed and fewer than 5
\* remain in the window.
C24_BlockedWhileFiveInWindow ==
    ret.op = "is_blocked" =>
        (ret.result = "True" <=>
            failures_in_window(failed_attempts, ret.username, now)
                >= BLOCK_THRESHOLD)

(***************************************************************************)
(* Lockout and rate limiting side by side: password logins and rate-limit  *)
(* checks of one user, and the clock.                                      *)
(***************************************************************************)
NextThrottle ==
    \/ Tick(ShortStep, ShortHorizon)
    \/ \E p \in Passwords : authenticate_user("admin", p)
    \/ \E e \in Endpoints : check_rate_limit("admin", e)

SpecThrottle == Init /\ [][NextThrottle]_vars

\* C25: a password login, failed or not, leaves every rate-limit window as
\* it was; a rate-limit check leaves every list of failed attempts as it
\* was, and its answer is decided by the requests within the trailing hour
\* and the user's rate_limit alone, whether the user is locked out or not.
C25_LockoutAndRateLimitApart ==
    [][/\ ret'.op = "authenticate_user" => rate_limits' = rate_limits
       /\ ret'.op = "check_rate_limit" =>
             /\ failed_attempts' = failed_attempts
             /\ ret'.result = "True" <=>
                    requests_in_window(rate_limits,
                                       rate_key(ret'.username, ret'.endpoint),
                                       now)
                        < users[ret'.username].rate_limit]_vars

\* a rate-limit check of a user with 5 failed logins within the trailing
\* hour has been admitted
C25_Witness ==
    /\ ret.op = "check_rate_limit"
    /\ ret.result = "True"
    /\ failures_in_window(failed_attempts, ret.username, now)
           >= BLOCK_THRESHOLD

(***************************************************************************)
(* The session store of one user: sessions from either address, their      *)
(* validation, revocation and sweep, and the clock.                        *)
(***************************************************************************)
NextSessionStore ==
    \/ Tick(LongStep, LongHorizon)
    \/ \E ip \in IpAddresses : create_session("admin", ip)
    \/ \E s \in SessionIds, ip \in IpAddresses : validate_session(s, ip)
    \/ \E s \in SessionIds : revoke_session(s)
    \/ cleanup_expired_sessions

SpecSessionStore == InitAnyIp /\ [][NextSessionStore]_vars

\* C26: for an active session not past its expires_at, with strict IP
\* binding validate_session succeeds exactly when the request's address is
\* the session's ip_address, and a mismatch leaves the session record as it
\* was; without strict binding it succeeds from every address.
C26_StrictIpBinding ==
    [][\A s \in DOMAIN sessions :
          (/\ ret'.op = "validate_session"
           /\ ret'.session_id = s
           /\ sessions[s].is_active
           /\ ~(now > sessions[s].expires_at))
          => IF strict_ip
             THEN /\ ret'.result # None
                       <=> ret'.ip_address = sessions[s].ip_address
                  /\ ret'.ip_address # sessions[s].ip_address
                       => sessions' = sessions
             ELSE ret'.result = sessions[s].user_id]_vars

\* with strict binding, an active unexpired session has been refused from
\* another address than its own and is still active
C26_Witness ==
    /\ strict_ip
    /\ ret.op = "validate_session"
    /\ ret.session_id \in DOMAIN sessions
    /\ ret.result = None
    /\ sessions[ret.session_id].is_active
    /\ ~(now > sessions[ret.session_id].expires_at)
    /\ ret.ip_address # sessions[ret.session_id].ip_address

\* C27: cleanup_expired_sessions removes exactly the session records whose
\* expires_at is before now, returns how many they are, and leaves every
\* other session record, active or not, and the users as they were.
C27_SweepRemovesExpiredOnly ==
    [][ret'.op = "cleanup_expired_sessions" =>
          LET gone == {s \in DOMAIN sessions : sessions[s].expires_at < now}
          IN  /\ DOMAIN sessions' = DOMAIN sessions \ gone
              /\ \A s \in DOMAIN sessions' : sessions'[s] = sessions[s]
              /\ ret'.status = Cardinality(gone)
              /\ users' = users]_vars

\* a sweep has removed one session and kept another that is revoked but not
\* past its expires_at
C27_Witness ==
    /\ ret.op = "cleanup_expired_sessions"
    /\ ret.status = 1
    /\ \E s \in DOMAIN sessions :
          /\ ~sessions[s].is_active
          /\ ~(sessions[s].expires_at < now)

(***************************************************************************)
(* The sweep among the workers.  cleanup_expired_sessions takes no lock:   *)
(* between the making of the iterator of self.sessions.items(), the end of *)
(* the iteration and the deletions, other workers run their session        *)
(* operations.  A dict iterator raises RuntimeError("dictionary changed    *)
(* size during iteration") at its next step when the dict has another      *)
(* number of entries than when the iterator was made; del of a key that    *)
(* is no longer in the dict raises KeyError.                               *)
(***************************************************************************)

\* the other variables of a step inside cleanup_expired_sessions
sweep_step_frame ==
    UNCHANGED <<scripts, now, strict_ip, users, failed_attempts, rate_limits,
                next_session, next_key, tokens, users_file, history>>

\* lines 440-442: now is taken and the iteration over self.sessions.items()
\* begins
sweep_enter(w) ==
    /\ frames[w].pc = "idle"
    /\ frames' = [frames EXCEPT ![w] =
                     [Idle EXCEPT !.pc = "scan", !.t = now,
                                  !.used = Cardinality(DOMAIN sessions)]]
    /\ ret' = [NoCall EXCEPT !.op = "cleanup_expired_sessions_step"]
    /\ UNCHANGED <<sessions, sessions_file>>
    /\ sweep_step_frame

\* lines 441-444: the iteration ends; it raises when the dict has changed
\* its size since it began, else expired_sessions is the list of the ids
\* whose expires_at is before now
sweep_scan(w) ==
    /\ frames[w].pc = "scan"
    /\ IF Cardinality(DOMAIN sessions) # frames[w].used
       THEN /\ frames' = [frames EXCEPT ![w] = Idle]
            /\ ret' = [NoCall EXCEPT !.op = "cleanup_expired_sessions",
                                     !.raised = "RuntimeError"]
       ELSE /\ frames' = [frames EXCEPT
                            ![w].pc = "delete",
                            ![w].expired =
                                expired_sessions(sessions, frames[w].t)]
            /\ ret' = [NoCall EXCEPT !.op = "cleanup_expired_sessions_step"]
    /\ UNCHANGED <<sessions, sessions_file>>
    /\ sweep_step_frame

\* lines 446-452: the ids of the list are deleted in order, the sessions
\* are saved when the list is not empty, its length is returned; del raises
\* at the first id that is no longer in the dict
sweep_delete(w) ==
    /\ frames[w].pc = "delete"
    /\ LET expired == frames[w].expired
           missing == expired \ DOMAIN sessions
           deleted == {s \in expired : \A m \in missing : s < m}
       IN  /\ sessions' = [s \in DOMAIN sessions \ deleted |-> sessions[s]]
           /\ IF missing # {}
              THEN /\ ret' = [NoCall EXCEPT !.op = "cleanup_expired_sessions",
                                            !.raised = "KeyError"]
                   /\ UNCHANGED sessions_file
              ELSE /\ sessions_file' =
                          IF expired # {}
                          THEN save_sessions(sessions_file, sessions')
                          ELSE sessions_file
                   /\ ret' = [NoCall EXCEPT
                                !.op = "cleanup_expired_sessions",
                                !.status = Cardinality(expired),
                                !.flush =
                                    IF expired # {}
                                    THEN flushed(sessions_data(sessions'))
                                    ELSE "none"]
    /\ frames' = [frames EXCEPT ![w] = Idle]
    /\ sweep_step_frame

NextSweep ==
    \/ Tick(LongStep, LongHorizon)
    \/ create_session("admin", "10.0.0.1")
    \/ \E s \in SessionIds : validate_session(s, "10.0.0.1")
    \/ \E s \in SessionIds : revoke_session(s)
    \/ delete_user("admin")
    \/ \E w \in Workers : sweep_enter(w)
    \/ \E w \in Workers : sweep_scan(w)
    \/ \E w \in Workers : sweep_delete(w)

SpecSweep == Init /\ [][NextSweep]_vars

\* C28: whatever session operations run between the steps of a sweep, the
\* sweep returns without raising, no session record is removed before its
\* expires_at has passed, and no inactive session record becomes active.
C28_SweepExcludesMutations ==
    [][/\ ret'.op = "cleanup_expired_sessions" => ret'.raised = None
       /\ \A s \in DOMAIN sessions \ DOMAIN sessions' :
             sessions[s].expires_at < now
       /\ \A s \in DOMAIN sessions \cap DOMAIN sessions' :
             ~sessions[s].is_active => ~sessions'[s].is_active]_vars

\* what the caller of the last call got: the exception when one was raised,
\* else the value returned
outcome == IF ret.raised # None THEN ret.raised ELSE ret.result

\* C29: validate_session tells its caller which check failed:
\* AuthenticationFailed for an id that is not in the store, SessionRevoked
\* for a session that is not active, SessionExpired for an active session
\* past its expires_at.
C29_ValidationNamesFailedCheck ==
    [][ret'.op = "validate_session" =>
          LET s == ret'.session_id
          IN  /\ s \notin DOMAIN sessions => outcome' = "AuthenticationFailed"
              /\ (s \in DOMAIN sessions /\ ~sessions[s].is_active)
                    => outcome' = "SessionRevoked"
              /\ (/\ s \in DOMAIN sessions
                  /\ sessions[s].is_active
                  /\ now > sessions[s].expires_at)
                    => outcome' = "SessionExpired"]_vars

\* C30: create_user with a username that is in the store raises ValueError,
\* leaves every user record, the existing one with all its fields, and both
\* store files as they were, and saves nothing.
C30_DuplicateUserRejected ==
    [][(ret'.op = "create_user" /\ ret'.username \in DOMAIN users)
       => /\ ret'.raised = "ValueError"
          /\ users' = users
          /\ disk' = disk
          /\ ret'.flush = "none"]_vars

\* create_user has been refused for a user whose password, permissions and
\* number of keys are not those of a new account
C30_Witness ==
    /\ ret.op = "create_user"
    /\ ret.raised = "ValueError"
    /\ ret.username \in DOMAIN users
    /\ users[ret.username].password_hash # pwd_hash("pw2")
    /\ users[ret.username].permissions # <<"chat">>
    /\ Len(users[ret.username].api_keys) = 2

(***************************************************************************)
(* Rate-limit keys.  The key of a check is the string                      *)
(* f"{user.username}:{endpoint}"; create_user accepts any username and the *)
(* endpoint is the path of the request, so either may hold a colon.        *)
(***************************************************************************)
PairUsernames == {"admin", "admin:/v1"}
PairEndpoints == {"/chat", "/v1:/chat"}

NextPairs ==
    \/ Tick(ShortStep, ShortHorizon)
    \/ \E u \in PairUsernames : create_user(u, "pw2", <<"chat">>)
    \/ \E u \in PairUsernames, e \in PairEndpoints : check_rate_limit(u, e)

SpecPairs == Init /\ [][NextPairs]_vars

\* C31: a rate-limit check of one (username, endpoint) pair leaves the
\* window of every other pair as it was, whatever the two strings are.
C31_PairsIndependent ==
    [][\A u \in PairUsernames, e \in PairEndpoints :
          (/\ ret'.op = "check_rate_limit"
           /\ ret'.username = u
           /\ ret'.endpoint = e)
          => \A v \in PairUsernames, f \in PairEndpoints :
                (v # u \/ f # e)
                => window_of(rate_limits', rate_key(v, f)) =
                       window_of(rate_limits, rate_key(v, f))]_vars

\* the session ids that the calls of create_session made so far have used
ids_used == {generate_session_id(n) : n \in 1..(next_session - 1)}

\* C32: create_session uses an id that is not in the session store and that
\* no earlier call used, and leaves every record that is in the store as it
\* was.
C32_SessionIdsFresh ==
    [][ret'.op = "create_session" =>
          /\ ret'.session_id \notin DOMAIN sessions
          /\ ret'.session_id \notin ids_used
          /\ \A s \in DOMAIN sessions :
                s \in DOMAIN sessions' /\ sessions'[s] = sessions[s]]_vars

\* a session has been created after the sweep removed an earlier one
C32_Witness ==
    /\ ret.op = "create_session"
    /\ ret.session_id \in DOMAIN sessions
    /\ \E s \in ids_used : s \notin DOMAIN sessions

(***************************************************************************)
(* Tokens and the user lifecycle: a user is created, deleted and created   *)
(* again while tokens issued for the name are presented.                   *)
(***************************************************************************)
NextTokens ==
    \/ Tick(DispatchStep, DispatchHorizon)
    \/ \E perms \in PermissionLists : create_user("alice", "pw2", perms)
    \/ delete_user("alice")
    \/ \E u \in Usernames : generate_jwt_token(u)
    \/ \E t \in tokens : authenticate_jwt(t)
    \/ \E t \in tokens, perm \in {"chat", "models"} :
           wrapper(Header("Bearer", t), 0, "10.0.0.1", {perm}, "/api/chat")

SpecTokens == Init /\ [][NextTokens]_vars

\* C33: a token that was issued for a username before delete_user of that
\* name is not accepted afterwards, also not when a user of the same name
\* has been created since.
C33_TokenDiesWithUser ==
    [][(ret'.op = "authenticate_jwt" /\ ret'.bearer \in orphaned)
       => ret'.result = None]_vars

(***************************************************************************)
(* Quota: requests with an API key to handlers with required permissions,  *)
(* while the clock advances and the windows age.                           *)
(***************************************************************************)
NextQuota ==
    \/ Tick(ShortStep, ShortHorizon)
    \/ \E perms \in PermissionLists : create_user("alice", "pw2", perms)
    \/ delete_user("alice")
    \/ \E k \in 1..MaxKeys, required \in SUBSET Permissions :
           wrapper(Header("Bearer", ApiKey(k)), 0, "10.0.0.1", required,
                   "/api/chat")

SpecQuota == Init /\ [][NextQuota]_vars

\* the requests of a window that are less than an hour old at t_now
recent_requests(window, t_now) ==
    SelectSeq(window, LAMBDA t : t_now - t < WINDOW)

\* C34: a request that ends in 401 or 403 leaves every rate-limit window as
\* it was; a request that the rate limiter rejects (429) gets no timestamp
\* appended, and a request that is served (200) gets exactly one.
C34_OnlyServedRequestsConsumeQuota ==
    [][ret'.op = "wrapper" =>
          LET key == rate_key(ret'.result, ret'.endpoint)
              recent == recent_requests(window_of(rate_limits, key), now)
          IN  /\ ret'.status \in {401, 403} => rate_limits' = rate_limits
              /\ ret'.status = 429 => window_of(rate_limits', key) = recent
              /\ ret'.status = 200 =>
                    window_of(rate_limits', key) = Append(recent, now)
              /\ ret'.status \in {429, 200} =>
                    \A k \in DOMAIN rate_limits \ {key} :
                        window_of(rate_limits', k) = rate_limits[k]]_vars

\* a request of a user who was served before has been denied with 403, and
\* the user's window still holds the one request
C34_Witness ==
    /\ ret.op = "wrapper"
    /\ ret.status = 403
    /\ Len(window_of(rate_limits, rate_key(ret.result, ret.endpoint))) = 1
    /\ now > 0

\* C35: a session that cleanup_expired_sessions removes is one that
\* validate_session called at the same instant, from any address, refuses.
C35_SweepRemovesNoValidSession ==
    [][ret'.op = "cleanup_expired_sessions" =>
          \A s \in DOMAIN sessions \ DOMAIN sessions', ip \in IpAddresses :
              session_valid(sessions, s, ip, now, strict_ip) = None]_vars

\* the sweep has removed a session that no validation had found expired,
\* and kept one that is exactly at its expires_at
C35_Witness ==
    /\ ret.op = "cleanup_expired_sessions"
    /\ ret.status = 1
    /\ lapsed = {}
    /\ \E s \in DOMAIN sessions :
          sessions[s].is_active /\ sessions[s].expires_at = now

\* C36: a request with a bearer token is judged by the permissions and the
\* rate_limit of the user's record in the store at that time, not by the
\* permissions in the token; authenticate_jwt changes no user, no session,
\* no rate-limit window and no list of failed attempts.
C36_TokenCarriesCurrentRecord ==
    [][/\ (ret'.op = "wrapper" /\ ret'.via = "jwt"
           /\ ret'.result \in DOMAIN users)
          => LET user == users[ret'.result]
                 denied == /\ ret'.required # {}
                           /\ ret'.required \cap elements(user.permissions) = {}
                 limited == requests_in_window(
                                rate_limits,
                                rate_key(ret'.result, ret'.endpoint), now)
                                >= user.rate_limit
             IN  /\ ret'.permissions = user.permissions
                 /\ ret'.status = 403 <=> denied
                 /\ ret'.status = 429 <=> (~denied /\ limited)
                 /\ ret'.status = 200 <=> (~denied /\ ~limited)
       /\ ret'.op = "authenticate_jwt"
          => UNCHANGED <<users, sessions, rate_limits, failed_attempts>>]_vars

\* a request has been served on a permission that the user's record holds
\* and the token presented does not
C36_Witness ==
    /\ ret.op = "wrapper"
    /\ ret.via = "jwt"
    /\ ret.status = 200
    /\ ret.result \in DOMAIN users
    /\ ret.required \cap elements(users[ret.result].permissions) # {}
    /\ ret.required \cap elements(ret.bearer.permissions) = {}

(***************************************************************************)
(* Password logins for users that exist, that do not exist, and that are   *)
(* no longer active.                                                       *)
(***************************************************************************)
NextGate ==
    \/ Tick(ShortStep, ShortHorizon)
    \/ create_user("alice", "pw2", <<"chat">>)
    \/ deactivate_user("alice")
    \/ delete_user("alice")
    \/ \E u \in Usernames, p \in Passwords : authenticate_user(u, p)

SpecGate == Init /\ [][NextGate]_vars

\* C37: a password login for a username that is not in the store, or for a
\* user who is not active, fails, compares no password and records no
\* failed attempt; the list of failed attempts of a name grows only while
\* the name is that of an active user in the store.
C37_NoAttemptForUnknownOrInactive ==
    [][/\ (/\ ret'.op = "authenticate_user"
           /\ \/ ret'.username \notin DOMAIN users
              \/ ~users[ret'.username].is_active)
          => /\ ret'.result = None
             /\ ~ret'.verified
             /\ failed_attempts' = failed_attempts
       /\ \A u \in Usernames :
             failed_attempts' # failed_attempts /\ ret'.username = u
             => u \in DOMAIN users /\ users[u].is_active]_vars

\* a login with the right password for a user who is no longer active, and
\* who has a failed attempt from before, has failed
C37_Witness ==
    /\ ret.op = "authenticate_user"
    /\ ret.username \in DOMAIN users
    /\ ~users[ret.username].is_active
    /\ pwd_verify(ret.password, users[ret.username].password_hash)
    /\ ret.result = None
    /\ ret.username \in DOMAIN failed_attempts

(***************************************************************************)
(* download_utils.atomic_download: download into a temporary directory,    *)
(* verify, move to output_dir/filename, remove the temporary directory.    *)
(* What the URL serves, and which system call fails, is the environment's  *)
(* choice.                                                                 *)
(***************************************************************************)

\* what a URL may serve
Served == {"model-a", "model-b"}

\* hashlib hexdigest of a file's content: lower-case hex
hexdigest(content) == [digest |-> content, upper |-> FALSE]

\* str.lower() of a hex string
lower(hash) == [hash EXCEPT !.upper = FALSE]

\* expected_hash = None: no hash is given
NoHash == [digest |-> "none", upper |-> FALSE]

\* the values of expected_hash: None, or the hex digest of some content in
\* lower or upper case
ExpectedHashes ==
    {NoHash} \cup {[digest |-> c, upper |-> b] : c \in Served, b \in BOOLEAN}

\* the one call that may fail in a run: none, tempfile.mkdtemp, the aria2c
\* download, output_dir.mkdir, the os.rename or the copy inside shutil.move,
\* shutil.rmtree
Faults == {"none", "mkdtemp", "aria2c", "mkdir", "rename", "copy", "rmtree"}

\* verify_download_integrity(file_path, expected_hash)
verify_download_integrity(content, expected_hash) ==
    IF expected_hash = NoHash THEN TRUE
    ELSE IF content = "absent" THEN FALSE
    ELSE lower(hexdigest(content)) = lower(expected_hash)

\* shutil.move(temp_file, final_file): os.rename within one filesystem; else
\* copy2, which opens the destination for writing and may fail after that,
\* followed by os.unlink of the source.  The file left at the destination
\* and whether the move returned.
shutil_move(final_file, temp_file, same_filesystem, fault) ==
    IF same_filesystem
    THEN IF fault = "rename" THEN [final_file |-> final_file, done |-> FALSE]
         ELSE [final_file |-> temp_file, done |-> TRUE]
    ELSE IF fault = "copy" THEN [final_file |-> "partial", done |-> FALSE]
         ELSE [final_file |-> temp_file, done |-> TRUE]

\* lines 345-369, the try block: whether the move was reached, and what it
\* left at output_dir/filename
download_try(final_file, served, expected_hash, same_filesystem, fault) ==
    IF fault = "mkdtemp" \/ fault = "aria2c"
    THEN [final_file |-> final_file, done |-> FALSE]
    ELSE IF expected_hash # NoHash
            /\ ~verify_download_integrity(served, expected_hash)
    THEN [final_file |-> final_file, done |-> FALSE]
    ELSE IF fault = "mkdir" THEN [final_file |-> final_file, done |-> FALSE]
    ELSE shutil_move(final_file, served, same_filesystem, fault)

\* lines 374-381, the finally block: the temporary directory after the run
download_cleanup(fault) ==
    IF fault = "mkdtemp" THEN "none"
    ELSE IF fault = "rmtree" THEN "present"
    ELSE "removed"

\* atomic_download(url, output_dir, filename, token, expected_hash)
atomic_download(served, expected_hash, same_filesystem, fault) ==
    /\ LET run == download_try(download.final_file, served, expected_hash,
                               same_filesystem, fault)
       IN  download' = [op |-> "atomic_download",
                        final_file |-> run.final_file,
                        temp_dir |-> download_cleanup(fault),
                        served |-> served,
                        expected_hash |-> expected_hash,
                        same_filesystem |-> same_filesystem,
                        fault |-> fault,
                        result |-> run.done]
    /\ UNCHANGED <<api, privacy>>

NextDownload ==
    \E served \in Served, expected_hash \in ExpectedHashes,
       same_filesystem \in BOOLEAN, fault \in Faults :
        atomic_download(served, expected_hash, same_filesystem, fault)

SpecDownload == Init /\ [][NextDownload]_vars

\* C38: atomic_download changes output_dir/filename only when the download
\* succeeded and, with an expected hash, the content has that hash; after
\* every run the temporary directory is gone; a run that returns False
\* leaves output_dir/filename as it was.
C38_AtomicDownload ==
    [][download'.op = "atomic_download" =>
          /\ download'.final_file # download.final_file =>
                /\ download'.fault # "aria2c"
                /\ download'.expected_hash # NoHash =>
                      download'.expected_hash.digest = download'.served
          /\ download'.temp_dir # "present"
          /\ ~download'.result =>
                download'.final_file = download.final_file]_vars

(***************************************************************************)
(* privacy_state_manager.PrivacyStateManager.  Times are kept as ages: how *)
(* long the manager has been in its state (time.time() - state_start_time) *)
(* and how old the timestamp in the state file is.                         *)
(***************************************************************************)

\* PrivacyConfig: startup_grace_period, download_timeout, activity_timeout
STARTUP_GRACE_PERIOD == 300
DOWNLOAD_TIMEOUT == 3600
ACTIVITY_TIMEOUT == 1800
\* _load_state: a saved state is valid for one hour
STATE_VALIDITY == 3600

\* class PrivacyState
PrivacyStates ==
    {"startup", "downloads_active", "activity_detected", "strict",
     "emergency_block", "monitoring_only"}

\* an update_state whose STARTUP never ends by the grace period
update_target_startup_waits(state, state_duration, downloads_active, system_activity) ==
    IF state = "startup"
    THEN IF downloads_active THEN "downloads_active" ELSE state
    ELSE IF state = "downloads_active"
    THEN IF ~downloads_active /\ ~system_activity THEN "strict"
         ELSE IF state_duration > DOWNLOAD_TIMEOUT THEN "strict"
         ELSE state
    ELSE IF state = "activity_detected"
    THEN IF ~system_activity THEN "strict"
         ELSE IF state_duration > ACTIVITY_TIMEOUT THEN "strict"
         ELSE state
    ELSE IF state = "strict"
    THEN IF downloads_active THEN "downloads_active"
         ELSE IF system_activity THEN "activity_detected"
         ELSE state
    ELSE state

\* update_state, lines 354-376: the state it moves to, the current state
\* when it makes no transition
update_target(state, state_duration, downloads_active, system_activity) ==
    IF state = "startup"
    THEN IF downloads_active THEN "downloads_active"
         ELSE IF state_duration > STARTUP_GRACE_PERIOD THEN "strict"
         ELSE state
    ELSE IF state = "downloads_active"
    THEN IF ~downloads_active /\ ~system_activity THEN "strict"
         ELSE IF state_duration > DOWNLOAD_TIMEOUT THEN "strict"
         ELSE state
    ELSE IF state = "activity_detected"
    THEN IF ~system_activity THEN "strict"
         ELSE IF state_duration > ACTIVITY_TIMEOUT THEN "strict"
         ELSE state
    ELSE IF state = "strict"
    THEN IF downloads_active THEN "downloads_active"
         ELSE IF system_activity THEN "activity_detected"
         ELSE state
    ELSE state

\* transition_to_state(new_state): the state is set, state_start_time is
\* now, and the state is saved with that timestamp
transitioned(manager, new_state) ==
    [manager EXCEPT !.current_state = new_state,
                    !.state_duration = 0,
                    !.state_file = [state |-> new_state, age |-> 0]]

\* an age after step more seconds, no longer told apart beyond the horizon
aged(age, step) ==
    IF age + step > PrivacyHorizon THEN PrivacyHorizon ELSE age + step

\* time.time() advances
privacy_tick ==
    /\ \/ privacy.state_duration < PrivacyHorizon
       \/ /\ privacy.state_file.state # "none"
          /\ privacy.state_file.age < PrivacyHorizon
    /\ privacy' = [privacy EXCEPT
                     !.op = "tick",
                     !.state_duration = aged(@, PrivacyStep),
                     !.state_file.age =
                         IF privacy.state_file.state = "none" THEN 0
                         ELSE aged(@, PrivacyStep)]
    /\ UNCHANGED <<api, download>>

\* update_state(), with what check_download_activity and
\* check_system_activity return
update_state(downloads_active, system_activity) ==
    /\ privacy.quiet_since # "never" => (~downloads_active /\ ~system_activity)
    /\ LET target == update_target(privacy.current_state,
                                   privacy.state_duration,
                                   downloads_active, system_activity)
           manager == [privacy EXCEPT
                         !.op = "update_state",
                         !.downloads_active = downloads_active,
                         !.system_activity = system_activity]
       IN  privacy' = IF target = privacy.current_state THEN manager
                      ELSE transitioned(manager, target)
    /\ UNCHANGED <<api, download>>

\* transition_to_state(new_state), called from outside the manager
transition_to_state(new_state) ==
    /\ privacy.quiet_since = "never"
    /\ privacy' = transitioned([privacy EXCEPT !.op = "transition_to_state"],
                               new_state)
    /\ UNCHANGED <<api, download>>

\* force_emergency_block()
force_emergency_block ==
    /\ privacy.quiet_since = "never"
    /\ privacy' = transitioned([privacy EXCEPT
                                  !.op = "force_emergency_block"],
                               "emergency_block")
    /\ UNCHANGED <<api, download>>

\* _load_state, lines 163-176: the state and timestamp of the state file
\* when it is less than an hour old, else STARTUP begun now
loaded_state(state_file) ==
    IF state_file.state # "none" /\ state_file.age < STATE_VALIDITY
    THEN [current_state |-> state_file.state,
          state_duration |-> state_file.age]
    ELSE [current_state |-> "startup", state_duration |-> 0]

\* PrivacyStateManager(): the next process constructs its manager, as the
\* command line does for every command
privacy_init ==
    /\ privacy.quiet_since = "never"
    /\ privacy' = [privacy EXCEPT
                     !.op = "__init__",
                     !.current_state =
                         loaded_state(privacy.state_file).current_state,
                     !.state_duration =
                         loaded_state(privacy.state_file).state_duration]
    /\ UNCHANGED <<api, download>>

NextPrivacy ==
    \/ privacy_tick
    \/ \E downloads_active \in BOOLEAN, system_activity \in BOOLEAN :
           update_state(downloads_active, system_activity)
    \/ \E new_state \in PrivacyStates : transition_to_state(new_state)
    \/ force_emergency_block
    \/ privacy_init

SpecPrivacy == Init /\ [][NextPrivacy]_vars

\* C39: once the state is EMERGENCY_BLOCK, update_state does not change it,
\* whatever it observes and however much time has passed; the state leaves
\* EMERGENCY_BLOCK only in a call of transition_to_state.
C39_EmergencyBlockSticky ==
    [][(/\ privacy.current_state = "emergency_block"
        /\ privacy'.current_state # "emergency_block")
       => privacy'.op = "transition_to_state"]_vars

\* from now on check_download_activity and check_system_activity return
\* False, and the manager is driven by update_state alone
calm ==
    /\ privacy.quiet_since = "never"
    /\ privacy' = [privacy EXCEPT !.op = "calm",
                                  !.quiet_since = privacy.current_state]
    /\ UNCHANGED <<api, download>>

NextCalm ==
    \/ NextPrivacy
    \/ calm

\* time keeps advancing and update_state keeps being called
SpecCalm ==
    /\ Init
    /\ [][NextCalm]_vars
    /\ WF_vars(privacy_tick)
    /\ WF_vars(update_state(FALSE, FALSE))

====
